---- MODULE Spec2Model ----
(***************************************************************************)
(* A model of the grpc-bridge server's session-scoped protocol engine:     *)
(* the WebSocket hub (internal/websocket), the native gRPC client and its  *)
(* descriptor cache (internal/grpc/client.go), the session manager         *)
(* (internal/session/manager.go), the gRPC and proto handlers (handler     *)
(* package), the import analyzer (internal/proto/analyzer.go) and the      *)
(* service parser (internal/proto).                                        *)
(*                                                                         *)
(* Goroutines are processes with a program counter.  A Go panic or a fatal *)
(* runtime error in a goroutine ends the process (crashed), after which    *)
(* nothing runs.                                                           *)
(***************************************************************************)
EXTENDS Integers, Sequences, FiniteSets, TLC

\* ------------------------------------------------------------------ bounds
\* Session ids the requests of a run may name.
Sessions == {"s1", "s2"}
\* WebSocket connections opened during a run.
MaxClients == 2
\* Capacity of a client's Send channel (256 in the program, scaled down).
SendCap == 1
\* Proto files a session may hold.
MaxFiles == 2
\* The relative paths of the proto files an upload may store, numbered.
Files == 1..MaxFiles
\* The sessions' time to live in clock ticks (24 hours in the program,
\* scaled down).
Ttl == 2
\* The last tick of the clock.
MaxTime == 3
\* Relative directory paths an upload may report; "" is the root marker.
Dirs == {"", "api"}

ClientIds == 1..MaxClients
NoClient == 0
\* Goroutines that publish events through the hub or serve a request.
Tasks == {1, 2}
\* The request handlers among them that call EmitToSession directly.
Publishers == {1}
HubEvents == {"proto://upload_done"}
\* Capacity of the hub's broadcast channel (256 in the program, scaled down).
BroadcastCap == 1
\* No WebEventManager has been constructed.
NoWem == [built |-> FALSE, socks |-> <<>>, ws |-> 0, reconnectTimer |-> 0,
          pending |-> {}, timers |-> 0, delay |-> 0, reconnectAttempts |-> 0,
          connects |-> 0, cleaned |-> FALSE]
\* WebEventManager.maxReconnectAttempts.
maxReconnectAttempts == 5
\* The connect() calls a run follows.
MaxConnects == 7
\* Manager.mu is not held for writing.
NoWriter == [op |-> "", sid |-> "", f |-> 0]
\* No broadcast message in the run loop's hands.
NoMessage == [to |-> "", ev |-> ""]

VARIABLES
    clients,    \* Hub.clients: session id -> registered client (NoClient: no entry)
    cSid,       \* Client.SessionID
    cState,     \* where the connection's HandleConnection / ReadPump is
    cSend,      \* Client.Send: the buffered channel's content
    cClosed,    \* whether Client.Send has been closed
    wPump,      \* where the connection's WritePump is
    hubPc,      \* the case Hub.run is executing
    bcast,      \* Hub.broadcast: the messages EmitToAll has queued
    hubMsg,     \* the message Hub.run received on broadcast
    wrote,      \* the messages each connection's WritePump has written to
                \* its WebSocket, where a run keeps that record
    mu,         \* Manager.mu: the write the lock is held for, if any
    wem,        \* the web client's WebEventManager
    hubArg,     \* the client Hub.run received on register / unregister
    task,       \* the goroutines: pc, session id, event, looked-up client,
                \* and what EmitToSession did (its log line)
    crashed,    \* the process has died of a panic or a fatal runtime error
    mSessions,  \* Manager.sessions: the ids that have a session
    sMeta,      \* CreatedAt, ExpiresAt, RootPath and Directories of each session
    now,        \* time.Now(), in ticks
    got,        \* the last response of SessionHandler.GetSession
    swept,      \* the ids the last cleanup pass removed
    sFiles,     \* Session.ProtoFiles of each session, in registration order
    cache,      \* NativeClient.descriptorCache: session id -> descriptors
    call,       \* per CallGRPC request: the handler, the request context, the
                \* options passed to NativeClient.Call and its result
    list,       \* per ListServices request: its inputs and its response
    fs,         \* the .proto files under a session root: relative path ->
                \* the import paths its import statements name, in order
    imports,    \* AnalyzeDirectory's result: relative path -> ImportInfo list
    ana,        \* an AnalyzeDependencies request: its position and results
    src,        \* the proto file ParseServices reads: its lines of tokens,
                \* and the declarations they spell
    parse,      \* ParseServices: its position and its local variables
    req         \* an UploadStructure or AnalyzeDependencies request: its
                \* position, the events it has emitted and its status

hubVars == <<clients, cSid, cState, cSend, cClosed, wPump, hubPc, hubArg, bcast,
            hubMsg, wrote>>
\* The manager's lock and the web client.
auxVars == <<mu, wem>>
\* The state of the proto handler, the import analyzer and the service parser.
protoVars == <<fs, imports, ana, src, parse, req>>
sessVars == <<mSessions, sFiles, sMeta, now, got, swept>>
\* What the steps of the connections and of EmitToSession leave alone.
quietVars == <<mSessions, sFiles, sMeta, now, got, swept, cache, call, list,
               protoVars, bcast, hubMsg, auxVars>>
serverVars == <<quietVars, wrote>>
vars == <<clients, cSid, cState, cSend, cClosed, wPump, hubPc, hubArg,
          task, crashed, mSessions, sFiles, sMeta, now, got, swept,
          cache, call, list, fs, imports, ana, src, parse, req, bcast, hubMsg,
          wrote, mu, wem>>

\* The fields of an id that has no session, and no GetSession response yet.
NoMeta == [created |-> 0, expires |-> 0, root |-> <<>>, dirs |-> {}]
NoGot == [sid |-> "", status |-> 0]

\* No entry in the descriptor cache / no descriptors loaded yet.
NoEntry == [sid |-> "", files |-> <<>>, none |-> TRUE]
NoCall == [handler |-> "none", ctx |-> "live", remote |-> "ok", files |-> <<>>,
           descs |-> NoEntry, cause |-> "", service |-> 0, method |-> "",
           data |-> "", conn |-> "none", parsed |-> FALSE, status |-> 0]
NoList == [pc |-> "idle", sid |-> "s1", target |-> "", err |-> <<>>, files |-> <<>>,
           status |-> 0, source |-> "", probes |-> 0, parses |-> 0, resp |-> 0]
IdleTask == [k |-> "pub", pc |-> "idle", sid |-> "s1", ev |-> "", target |-> NoClient,
             res |-> "", kind |-> ""]

\* NewHub: an empty clients map, the run loop waiting in its select.
InitHub ==
    /\ clients = [s \in Sessions |-> NoClient]
    /\ cSid = [c \in ClientIds |-> "s1"]
    /\ cState = [c \in ClientIds |-> "new"]
    /\ cSend = [c \in ClientIds |-> <<>>]
    /\ cClosed = [c \in ClientIds |-> FALSE]
    /\ wPump = [c \in ClientIds |-> "none"]
    /\ hubPc = "select"
    /\ hubArg = NoClient
    /\ bcast = <<>>
    /\ hubMsg = NoMessage
    /\ wrote = [c \in ClientIds |-> <<>>]

\* NewManager, NewNativeClient: no session, an empty descriptor cache.
InitServer ==
    /\ mSessions = {}
    /\ sMeta = [s \in Sessions |-> NoMeta]
    /\ now = 0
    /\ got = NoGot
    /\ swept = {}
    /\ sFiles = [s \in Sessions |-> <<>>]
    /\ cache = [s \in Sessions |-> NoEntry]
    /\ call = [t \in Tasks |-> NoCall]
    /\ list = [t \in Tasks |-> NoList]

\* No file has been stored and no analysis has been asked for.
NoAna == [pc |-> "idle", missing |-> <<>>, stdlib |-> <<>>, graph |-> <<>>,
          seen |-> <<>>, calls |-> 0]

\* ParseServices has not been called.
NoParse == [pc |-> "idle", i |-> 0, pkg |-> <<>>, currentServiceIndex |-> 0,
            braceDepth |-> 0, services |-> <<>>]
NoSrc == [decl |-> <<>>, lines |-> <<>>]
\* No request of the proto handler has been served.
NoReq == [pc |-> "idle", op |-> "", sid |-> "", events |-> <<>>, status |-> 0]

InitAnalyzer ==
    /\ imports = <<>>
    /\ ana = NoAna

InitParser == parse = NoParse /\ req = NoReq

InitProto ==
    /\ fs = <<>>
    /\ InitAnalyzer
    /\ src = NoSrc
    /\ InitParser

\* main: the hub, the manager and the clients are built, nothing has run.
InitProcess ==
    /\ InitHub
    /\ InitServer
    /\ task = [t \in Tasks |-> IdleTask]
    /\ crashed = FALSE
    /\ mu = NoWriter
    /\ wem = NoWem

Init ==
    /\ InitProcess
    /\ InitProto

\* ------------------------------------------------ WebSocket connections
\* HandleConnection up to hub.Register: a client object for session s with an
\* open, empty Send channel.  Connections are numbered in the order they come.
HandleConnection(c, s) ==
    /\ ~crashed
    /\ cState[c] = "new"
    /\ \A d \in ClientIds : d < c => cState[d] # "new"
    /\ cSid' = [cSid EXCEPT ![c] = s]
    /\ cState' = [cState EXCEPT ![c] = "registering"]
    /\ UNCHANGED <<clients, cSend, cClosed, wPump, hubPc, hubArg, task, crashed>>
    /\ UNCHANGED serverVars

\* Hub.Register's unbuffered send meets the run loop's receive: Register
\* returns and HandleConnection starts the two pumps.  The run loop has the
\* client in hand but has not written the map yet.
RegisterHandoff(c) ==
    /\ ~crashed
    /\ cState[c] = "registering"
    /\ hubPc = "select"
    /\ hubPc' = "register"
    /\ hubArg' = c
    /\ cState' = [cState EXCEPT ![c] = "live"]
    /\ wPump' = [wPump EXCEPT ![c] = "running"]
    /\ UNCHANGED <<clients, cSid, cSend, cClosed, task, crashed>>
    /\ UNCHANGED serverVars

\* A register case that keeps the entry already there.
RegisterEntry_KeepFirst(old, c) == IF old # NoClient THEN old ELSE c

\* The client a register case stores under a session id holding entry old.
RegisterEntry(old, c) == c

\* Hub.run, register case: under the write lock, clients[SessionID] = client.
HubRegister ==
    /\ ~crashed
    /\ hubPc = "register"
    /\ clients' = [clients EXCEPT ![cSid[hubArg]] = RegisterEntry(@, hubArg)]
    /\ hubPc' = "select"
    /\ hubArg' = NoClient
    /\ UNCHANGED <<cSid, cState, cSend, cClosed, wPump, task, crashed>>
    /\ UNCHANGED serverVars

\* ReadPump: ReadMessage fails (the peer went away, or the connection was
\* closed by WritePump's exit); the deferred function calls hub.Unregister.
ReadPumpEnd(c) ==
    /\ ~crashed
    /\ cState[c] = "live"
    /\ cState' = [cState EXCEPT ![c] = "closing"]
    /\ UNCHANGED <<clients, cSid, cSend, cClosed, wPump, hubPc, hubArg, task, crashed>>
    /\ UNCHANGED serverVars

\* Hub.Unregister's send meets the run loop's receive; ReadPump's deferred
\* function goes on to close the connection.
UnregisterHandoff(c) ==
    /\ ~crashed
    /\ cState[c] = "closing"
    /\ hubPc = "select"
    /\ hubPc' = "unregister"
    /\ hubArg' = c
    /\ cState' = [cState EXCEPT ![c] = "dead"]
    /\ UNCHANGED <<clients, cSid, cSend, cClosed, wPump, task, crashed>>
    /\ UNCHANGED serverVars

\* Hub.run, unregister case: if the client's session id has an entry (whatever
\* client it holds), delete the entry and close the unregistering client's
\* Send channel.  Closing a closed channel panics.
HubUnregister ==
    /\ ~crashed
    /\ hubPc = "unregister"
    /\ IF clients[cSid[hubArg]] # NoClient
       THEN /\ clients' = [clients EXCEPT ![cSid[hubArg]] = NoClient]
            /\ IF cClosed[hubArg]
               THEN crashed' = TRUE /\ UNCHANGED cClosed
               ELSE cClosed' = [cClosed EXCEPT ![hubArg] = TRUE] /\ UNCHANGED crashed
       ELSE UNCHANGED <<clients, cClosed, crashed>>
    /\ hubPc' = "select"
    /\ hubArg' = NoClient
    /\ UNCHANGED <<cSid, cState, cSend, wPump, task>>
    /\ UNCHANGED serverVars

\* WritePump: `for message := range c.Send`: take the next message and write
\* it to the connection; the write fails, and the pump returns, when the
\* connection is gone.  The loop ends when the channel is closed and drained.
WritePumpStep(c) ==
    /\ ~crashed
    /\ wPump[c] = "running"
    /\ \/ /\ cSend[c] # <<>>
          /\ cSend' = [cSend EXCEPT ![c] = Tail(@)]
          /\ \/ UNCHANGED wPump
             \/ /\ cState[c] = "dead"
                /\ wPump' = [wPump EXCEPT ![c] = "exited"]
       \/ /\ cSend[c] = <<>>
          /\ cClosed[c]
          /\ wPump' = [wPump EXCEPT ![c] = "exited"]
          /\ UNCHANGED cSend
    /\ UNCHANGED <<clients, cSid, cState, cClosed, hubPc, hubArg, task, crashed>>
    /\ UNCHANGED quietVars

\* WritePump, where no record of the written messages is kept.
WritePump(c) == WritePumpStep(c) /\ UNCHANGED wrote

\* WritePump, with the record: a message whose write succeeded is added.
WritePumpLogged(c) ==
    /\ WritePumpStep(c)
    /\ wrote' = [wrote EXCEPT ![c] =
                     IF cSend[c] # <<>> /\ wPump'[c] = "running"
                         THEN Append(@, Head(cSend[c])) ELSE @]

\* ------------------------------------------------------- EmitToSession
Message(s, ev) == [to |-> s, ev |-> ev]

\* A lookup that hands out some registered client when the session has none.
Lookup_AnyClient(s) ==
    IF clients[s] # NoClient THEN clients[s]
    ELSE IF \E r \in Sessions : clients[r] # NoClient
         THEN clients[CHOOSE r \in Sessions : clients[r] # NoClient]
         ELSE NoClient

\* The map read: client, exists := h.clients[sessionID].
Lookup(s) == clients[s]

\* EmitToSession, lines 93-100: the read of the map under the read lock (the
\* run loop writes it under the write lock, so the read is one step); with no
\* entry the function logs "Session not found" and returns.
EmitRead(t) ==
    /\ ~crashed
    /\ task[t].pc = "emit"
    /\ IF Lookup(task[t].sid) = NoClient
       THEN task' = [task EXCEPT ![t].pc = "ret", ![t].res = "nosub"]
       ELSE task' = [task EXCEPT ![t].pc = "send", ![t].target = Lookup(task[t].sid)]
    /\ UNCHANGED <<protoVars, hubVars, auxVars, crashed>>
    /\ UNCHANGED serverVars

\* Whether the select's send case can proceed on a channel holding q.
CanSend(q) == Len(q) < SendCap

\* A send that puts the message on the channel twice.
Enqueue_Twice(q, m) == Append(Append(q, m), m)

\* The channel's content after `client.Send <- m`.
Enqueue(q, m) == Append(q, m)

\* The clients map after EmitToSession found client c's buffer full: the
\* default branch only logs "Failed to send message".
AfterFull(c) == clients

\* EmitToSession, lines 102-112: `select { case client.Send <- message:
\* default: log }` on the client looked up earlier.  A send on a closed
\* channel panics: in a goroutine of its own that ends the process, in a
\* request handler the router's recovery middleware, if installed, answers
\* 500 instead.  A full buffer takes the default branch.
EmitSend(t) ==
    /\ ~crashed
    /\ task[t].pc = "send"
    /\ LET c == task[t].target IN
       IF cClosed[c]
       THEN /\ UNCHANGED <<cSend, clients>>
            /\ \/ crashed' = TRUE /\ UNCHANGED task
               \/ /\ task[t].k = "pub"
                  /\ task' = [task EXCEPT ![t].pc = "ret", ![t].res = "panic"]
                  /\ UNCHANGED crashed
       ELSE /\ UNCHANGED crashed
            /\ IF CanSend(cSend[c])
               THEN /\ cSend' = [cSend EXCEPT ![c] = Enqueue(@, Message(task[t].sid, task[t].ev))]
                    /\ task' = [task EXCEPT ![t].pc = "ret", ![t].res = "sent"]
                    /\ UNCHANGED clients
               ELSE /\ clients' = AfterFull(c)
                    /\ task' = [task EXCEPT ![t].pc = "ret", ![t].res = "full"]
                    /\ UNCHANGED cSend
    /\ UNCHANGED <<cSid, cState, cClosed, wPump, hubPc, hubArg>>
    /\ UNCHANGED serverVars

\* A request handler calls EmitToSession(s, ev, payload), as UploadStructure
\* and AnalyzeDependencies do.
Publish(t, s, ev) ==
    /\ ~crashed
    /\ task[t].pc = "idle"
    /\ task' = [task EXCEPT ![t] = [IdleTask EXCEPT !.pc = "emit", !.sid = s, !.ev = ev]]
    /\ UNCHANGED <<protoVars, hubVars, auxVars, crashed>>
    /\ UNCHANGED serverVars

\* EmitToSession has returned and the handler ends.
PublishReturn(t) ==
    /\ ~crashed
    /\ task[t].pc = "ret"
    /\ task[t].k = "pub"
    /\ task' = [task EXCEPT ![t] = IdleTask]
    /\ UNCHANGED <<protoVars, hubVars, auxVars, crashed>>
    /\ UNCHANGED serverVars

\* ----------------------------------------------------------- EmitToAll
\* Hub.EmitToAll: the message goes on the buffered broadcast channel; the
\* call blocks while the channel is full.
EmitToAll(ev) ==
    /\ ~crashed
    /\ Len(bcast) < BroadcastCap
    /\ bcast' = Append(bcast, Message("", ev))
    /\ UNCHANGED <<clients, cSid, cState, cSend, cClosed, wPump, hubPc, hubArg,
                   hubMsg, task, crashed>>
    /\ UNCHANGED <<sessVars, cache, call, list, protoVars, auxVars, wrote>>

\* The run loop's select takes the next message off the broadcast channel
\* and the broadcast case takes the read lock.
BroadcastHandoff ==
    /\ ~crashed
    /\ hubPc = "select"
    /\ bcast # <<>>
    /\ hubPc' = "broadcast"
    /\ bcast' = Tail(bcast)
    /\ hubMsg' = Head(bcast)
    /\ UNCHANGED <<clients, cSid, cState, cSend, cClosed, wPump, hubArg, task, crashed>>
    /\ UNCHANGED <<sessVars, cache, call, list, protoVars, auxVars, wrote>>

\* The clients the broadcast case finds with a full Send buffer.
Slow == {s \in Sessions : clients[s] # NoClient /\ ~CanSend(cSend[clients[s]])}

\* Hub.run, broadcast case: under the read lock, every client of the map
\* gets the message, or, its buffer being full, has its Send channel closed
\* and its entry deleted.  A send on a closed channel panics.
HubBroadcast ==
    /\ ~crashed
    /\ hubPc = "broadcast"
    /\ IF \E s \in Sessions : clients[s] # NoClient /\ cClosed[clients[s]]
       THEN /\ crashed' = TRUE
            /\ UNCHANGED <<clients, cSend, cClosed>>
       ELSE /\ cSend' = [c \in ClientIds |->
                            IF clients[cSid[c]] = c /\ CanSend(cSend[c])
                                THEN Enqueue(cSend[c], hubMsg) ELSE cSend[c]]
            /\ cClosed' = [c \in ClientIds |->
                              cClosed[c] \/ (cSid[c] \in Slow /\ clients[cSid[c]] = c)]
            /\ clients' = [s \in Sessions |-> IF s \in Slow THEN NoClient ELSE clients[s]]
            /\ UNCHANGED crashed
    /\ hubPc' = "select"
    /\ UNCHANGED <<cSid, cState, wPump, hubArg, hubMsg, bcast, task>>
    /\ UNCHANGED <<sessVars, cache, call, list, protoVars, auxVars, wrote>>

\* The lock of Hub.mu the run loop holds in the case it is executing: the
\* register and unregister cases take the write lock, the broadcast case the
\* read lock.
HubLock ==
    IF hubPc \in {"register", "unregister"} THEN "Lock"
    ELSE IF hubPc = "broadcast" THEN "RLock"
    ELSE "none"

\* The hub under Register, Unregister and EmitToAll.
NextBroadcast ==
    \/ \E c \in ClientIds, s \in Sessions : HandleConnection(c, s)
    \/ \E c \in ClientIds : RegisterHandoff(c)
    \/ HubRegister
    \/ \E c \in ClientIds : ReadPumpEnd(c)
    \/ \E c \in ClientIds : UnregisterHandoff(c)
    \/ HubUnregister
    \/ \E c \in ClientIds : WritePump(c)
    \/ \E ev \in HubEvents : EmitToAll(ev)
    \/ BroadcastHandoff
    \/ HubBroadcast

\* The hub with its connections and one publishing handler.
Next ==
    \/ \E c \in ClientIds, s \in Sessions : HandleConnection(c, s)
    \/ \E c \in ClientIds : RegisterHandoff(c)
    \/ HubRegister
    \/ \E c \in ClientIds : ReadPumpEnd(c)
    \/ \E c \in ClientIds : UnregisterHandoff(c)
    \/ HubUnregister
    \/ \E c \in ClientIds : WritePump(c)
    \/ \E t \in Tasks : EmitRead(t)
    \/ \E t \in Tasks : EmitSend(t)
    \/ \E t \in Publishers, s \in Sessions, ev \in HubEvents : Publish(t, s, ev)
    \/ \E t \in Publishers : PublishReturn(t)

Spec == Init /\ [][Next]_vars

SpecBroadcast == Init /\ [][NextBroadcast]_vars

\* ------------------------------------------------------ session manager
\* A lookup that does not look at the expiry.
Get_IgnoreExpiry(s) == s \in mSessions

\* Manager.Get: the session is in the map and the time is not after its
\* ExpiresAt.
Get(s) == s \in mSessions /\ ~(now > sMeta[s].expires)

\* A CreateWithID that starts a new session over the one it finds.
CreateWithID_Renew(s) ==
    /\ mSessions' = mSessions \cup {s}
    /\ sFiles' = [sFiles EXCEPT ![s] = <<>>]
    /\ sMeta' = [sMeta EXCEPT ![s] = [NoMeta EXCEPT !.created = now,
                                                     !.expires = now + Ttl]]

\* Manager.CreateWithID: the session found under the id, whatever its
\* expiry, or a new one with no proto files that expires a TTL from now.
CreateWithID(s) ==
    IF s \in mSessions
    THEN UNCHANGED <<mSessions, sFiles, sMeta>>
    ELSE /\ mSessions' = mSessions \cup {s}
         /\ sFiles' = [sFiles EXCEPT ![s] = <<>>]
         /\ sMeta' = [sMeta EXCEPT ![s] = [NoMeta EXCEPT !.created = now,
                                                          !.expires = now + Ttl]]

\* SessionHandler.CreateSession with a client-provided id: Manager.Get, and
\* 200 with the session it finds, else Manager.CreateWithID and 201.
CreateSession(s) ==
    /\ ~crashed
    /\ IF Get(s)
       THEN UNCHANGED <<mSessions, sFiles, sMeta>>
       ELSE CreateWithID(s)
    /\ UNCHANGED <<now, got, swept>>
    /\ UNCHANGED <<protoVars, hubVars, auxVars, task, crashed, cache, call, list>>

\* A delete that also drops the proto files of the other sessions.
AfterDelete_DropsFiles(s) ==
    /\ mSessions' = mSessions \ {s}
    /\ sFiles' = [r \in Sessions |-> <<>>]
    /\ sMeta' = [sMeta EXCEPT ![s] = NoMeta]

\* Manager.Delete, lines 148-156: the session's directory and its map entry
\* go; an id without a session has nothing to remove.
AfterDelete(s) ==
    /\ mSessions' = mSessions \ {s}
    /\ sFiles' = [sFiles EXCEPT ![s] = <<>>]
    /\ sMeta' = [sMeta EXCEPT ![s] = NoMeta]

\* SessionHandler.DeleteSession: Manager.Delete, and nothing else.
DeleteSession(s) ==
    /\ ~crashed
    /\ AfterDelete(s)
    /\ UNCHANGED <<now, got, swept>>
    /\ UNCHANGED <<protoVars, hubVars, auxVars, task, crashed, cache, call, list>>

\* The ProtoFiles of a session after file f is registered.
WithFile(files, f) == Append(files, f)

\* Manager.AddProtoFile, as UploadStructure calls it for each stored file:
\* append to the session's ProtoFiles.
AddProtoFile(s, f) ==
    /\ ~crashed
    /\ s \in mSessions
    /\ Len(sFiles[s]) < MaxFiles
    /\ sFiles' = [sFiles EXCEPT ![s] = WithFile(@, f)]
    /\ UNCHANGED <<mSessions, sMeta, now, got, swept>>
    /\ UNCHANGED <<protoVars, hubVars, auxVars, task, crashed, cache, call, list>>

\* UploadStructure, lines 204-209: a stored file is registered, its path one
\* the session already holds or the next new one.
StoreFile(s) == \E f \in 1..(Len(sFiles[s]) + 1) : AddProtoFile(s, f)

\* UploadStructure's session directory: uploadDir/sessionID.
SessionDir(s) == <<"uploads", s>>

\* Manager.SetRootPath, as UploadStructure calls it.
SetRootPath(s) ==
    /\ ~crashed
    /\ s \in mSessions
    /\ sMeta' = [sMeta EXCEPT ![s].root = SessionDir(s)]
    /\ UNCHANGED <<mSessions, sFiles, now, got, swept>>
    /\ UNCHANGED <<protoVars, hubVars, auxVars, task, crashed, cache, call, list>>

\* Manager.AddDirectories: merge the directories, skipping the root marker
\* and those already there.
AddDirectories(s, ds) ==
    /\ ~crashed
    /\ s \in mSessions
    /\ sMeta' = [sMeta EXCEPT ![s].dirs = @ \cup (ds \ {""})]
    /\ UNCHANGED <<mSessions, sFiles, now, got, swept>>
    /\ UNCHANGED <<protoVars, hubVars, auxVars, task, crashed, cache, call, list>>

\* SessionHandler.GetSession: 200 with the session Manager.Get finds, else 404.
GetSession(s) ==
    /\ ~crashed
    /\ got' = [sid |-> s, status |-> IF Get(s) THEN 200 ELSE 404]
    /\ UNCHANGED <<mSessions, sFiles, sMeta, now, swept>>
    /\ UNCHANGED <<protoVars, hubVars, auxVars, task, crashed, cache, call, list>>

\* The clock advances.
Tick ==
    /\ ~crashed
    /\ now < MaxTime
    /\ now' = now + 1
    /\ UNCHANGED <<mSessions, sFiles, sMeta, got, swept>>
    /\ UNCHANGED <<protoVars, hubVars, auxVars, task, crashed, cache, call, list>>

\* A cleanup that removes the sessions in their last tick as well.
Expired_Early(s) == now >= sMeta[s].expires

\* cleanupExpiredSessions, line 245: now.After(session.ExpiresAt).
Expired(s) == now > sMeta[s].expires

\* cleanupExpiredSessions, a pass of the hourly cleanup: under the lock,
\* every session past its ExpiresAt is removed with its directory.
CleanupExpiredSessions ==
    /\ ~crashed
    /\ LET gone == {s \in mSessions : Expired(s)}
       IN  /\ mSessions' = mSessions \ gone
           /\ sFiles' = [s \in Sessions |-> IF s \in gone THEN <<>> ELSE sFiles[s]]
           /\ sMeta' = [s \in Sessions |-> IF s \in gone THEN NoMeta ELSE sMeta[s]]
           /\ swept' = gone
    /\ UNCHANGED <<now, got>>
    /\ UNCHANGED <<protoVars, hubVars, auxVars, task, crashed, cache, call, list>>

\* The session manager under its handlers, the uploads' registrations, the
\* clock and the cleanup.
NextSess ==
    \/ \E s \in Sessions : CreateSession(s)
    \/ \E s \in Sessions : DeleteSession(s)
    \/ \E s \in Sessions : StoreFile(s)
    \/ \E s \in Sessions : SetRootPath(s)
    \/ \E s \in Sessions, ds \in SUBSET Dirs : AddDirectories(s, ds)
    \/ \E s \in Sessions : GetSession(s)
    \/ Tick
    \/ CleanupExpiredSessions

SpecSess == Init /\ [][NextSess]_vars

\* ----------------------------------------- NativeClient descriptor cache
\* A compilation that leaves out the last file of the list.
Compile_Partial(s, files) ==
    [sid |-> s,
     files |-> IF files = <<>> THEN <<>> ELSE SubSeq(files, 1, Len(files) - 1),
     none |-> FALSE]

\* What protoparse makes of a session's root directory and file list.
Compile(s, files) == [sid |-> s, files |-> files, none |-> FALSE]

\* Another goroutine is inside its write of the descriptorCache map.
WriterActive(t) == \E u \in Tasks \ {t} : task[u].pc = "storing"

\* A map guarded by a lock: an access waits while another goroutine writes.
MapAccess_Locked(t, effect) == ~WriterActive(t) /\ effect /\ UNCHANGED crashed

\* An access of the Go map, which no lock guards: when it overlaps another
\* goroutine's write the runtime may abort the process ("concurrent map
\* writes", "concurrent map read and map write") or let the access through.
MapAccess(t, effect) ==
    \/ effect /\ UNCHANGED crashed
    \/ /\ WriterActive(t)
       /\ crashed' = TRUE
       /\ UNCHANGED <<task, call, cache>>

\* One key for every session.
CacheKey_Shared(s) == "s1"

\* The key loadFileDescriptors stores session s's descriptors under.
CacheKey(s) == s

\* Whether loadFileDescriptors returns entry e, found under the session id,
\* for the file list it was given.
CacheHit(e, files) == TRUE

\* loadFileDescriptors, lines 206-209: the cache check.
CacheCheck(t) ==
    /\ ~crashed
    /\ task[t].pc = "load"
    /\ MapAccess(t,
         /\ IF ~cache[CacheKey(task[t].sid)].none
               /\ CacheHit(cache[CacheKey(task[t].sid)], call[t].files)
            THEN /\ call' = [call EXCEPT ![t].descs = cache[CacheKey(task[t].sid)]]
                 /\ task' = [task EXCEPT ![t].pc = "find"]
            ELSE /\ task' = [task EXCEPT ![t].pc = "parse"]
                 /\ UNCHANGED call
         /\ UNCHANGED cache)
    /\ UNCHANGED <<protoVars, hubVars, auxVars, sessVars, list>>

\* The "kind" of the grpc://error payload for a call that failed of cause why.
EventKind(why) == "error"

\* The goroutine of CallGRPC, lines 97-103: the call failed; emit grpc://error.
Fail(t, why) ==
    /\ task' = [task EXCEPT ![t].pc = "emit", ![t].ev = "grpc://error",
                            ![t].kind = EventKind(why)]
    /\ call' = [call EXCEPT ![t].cause = why]

\* loadFileDescriptors, lines 211-236: parse the files under the session
\* root; a file that does not parse fails the whole load.
ParseFiles(t) ==
    /\ ~crashed
    /\ task[t].pc = "parse"
    /\ \/ /\ call' = [call EXCEPT ![t].descs = Compile(task[t].sid, call[t].files)]
          /\ task' = [task EXCEPT ![t].pc = "store"]
       \/ Fail(t, "load")
    /\ UNCHANGED <<cache, crashed>>
    /\ UNCHANGED <<protoVars, hubVars, auxVars, sessVars, list>>

\* loadFileDescriptors, line 239: the write of the map begins ...
StoreBegin(t) ==
    /\ ~crashed
    /\ task[t].pc = "store"
    /\ MapAccess(t,
         /\ task' = [task EXCEPT ![t].pc = "storing"]
         /\ UNCHANGED <<call, cache>>)
    /\ UNCHANGED <<protoVars, hubVars, auxVars, sessVars, list>>

\* ... and ends.
StoreEnd(t) ==
    /\ ~crashed
    /\ task[t].pc = "storing"
    /\ cache' = [cache EXCEPT ![CacheKey(task[t].sid)] = call[t].descs]
    /\ task' = [task EXCEPT ![t].pc = "find"]
    /\ UNCHANGED <<call, crashed>>
    /\ UNCHANGED <<protoVars, hubVars, auxVars, sessVars, list>>

\* NativeClient.ClearCache: delete the session's entry.  No handler calls
\* it; it is the client's exported way to drop an entry.
ClearCache(s) ==
    /\ ~crashed
    /\ MapAccess(0,
         /\ cache' = [cache EXCEPT ![CacheKey(s)] = NoEntry]
         /\ UNCHANGED <<task, call>>)
    /\ UNCHANGED <<protoVars, hubVars, auxVars, sessVars, list>>

\* ------------------------------------------------------------- CallGRPC
\* CallGRPC, lines 45-93 and 116-119: the session exists (Manager.Get) and
\* the body binds; the handler copies the session's proto file paths and
\* starts the goroutine that runs NativeClient.Call with the request's
\* context.  remote is what the target would do with the call.  Requests are
\* numbered as they come.
CallGRPC(t, s, remote) ==
    /\ ~crashed
    /\ task[t].pc = "idle"
    /\ \A u \in Tasks : u < t => task[u].pc # "idle"
    /\ Get(s)
    /\ task' = [task EXCEPT ![t] = [IdleTask EXCEPT !.k = "call", !.pc = "load", !.sid = s]]
    /\ call' = [call EXCEPT ![t] = [NoCall EXCEPT !.handler = "running",
                                                  !.remote = remote,
                                                  !.files = sFiles[s]]]
    /\ UNCHANGED <<protoVars, hubVars, auxVars, sessVars, cache, crashed, list>>

\* ------------------------------------- Manager.mu and the session's fields
\* The writes of a session's fields that Manager makes under its lock.
FieldWrites == {"AddProtoFile", "SetRootPath"}

\* SessionHandler.CreateSession, whose Manager calls wait for Manager.mu.
CreateSessionLocked(s) == mu = NoWriter /\ CreateSession(s)

\* Manager.AddProtoFile or Manager.SetRootPath, as UploadStructure calls them
\* for session s, up to m.mu.Lock(): the lock is taken.
WriteLock(op, s) ==
    /\ ~crashed
    /\ mu = NoWriter
    /\ op = "AddProtoFile" => Len(sFiles[s]) < MaxFiles
    /\ mu' = [op |-> op, sid |-> s, f |-> Len(sFiles[s]) + 1]
    /\ UNCHANGED <<hubVars, sessVars, task, crashed, cache, call, list, protoVars, wem>>

\* ... and from there to the deferred m.mu.Unlock(): the field of the session
\* found under the id is written.
WriteUnlock ==
    /\ ~crashed
    /\ mu # NoWriter
    /\ IF mu.sid \notin mSessions THEN UNCHANGED <<sFiles, sMeta>>
       ELSE IF mu.op = "AddProtoFile"
           THEN /\ sFiles' = [sFiles EXCEPT ![mu.sid] = WithFile(@, mu.f)]
                /\ UNCHANGED sMeta
           ELSE /\ sMeta' = [sMeta EXCEPT ![mu.sid].root = SessionDir(mu.sid)]
                /\ UNCHANGED sFiles
    /\ mu' = NoWriter
    /\ UNCHANGED <<hubVars, mSessions, now, got, swept, task, crashed, cache, call,
                   list, protoVars, wem>>

\* CallGRPC, lines 46-69: Manager.Get under the read lock, which waits for a
\* writer; the session pointer is returned and the body binds.
CallGet(t, s) ==
    /\ ~crashed
    /\ task[t].pc = "idle"
    /\ \A u \in Tasks : u < t => task[u].pc # "idle"
    /\ mu = NoWriter
    /\ Get(s)
    /\ task' = [task EXCEPT ![t] = [IdleTask EXCEPT !.k = "call", !.pc = "copy", !.sid = s]]
    /\ UNCHANGED <<hubVars, auxVars, sessVars, crashed, cache, call, list, protoVars>>

\* What a read of a session's ProtoFiles may yield: the list as it is, or,
\* when AddProtoFile is appending to it, the list after the append.
FilesRead(s) ==
    {sFiles[s]} \cup
    IF mu.op = "AddProtoFile" /\ mu.sid = s /\ s \in mSessions
        THEN {WithFile(sFiles[s], mu.f)} ELSE {}

\* CallGRPC, lines 75-78: the handler copies session.ProtoFiles through the
\* pointer, holding no lock.  A read that overlaps the append is a data race:
\* it may see either list, or a torn slice header that ends the process.
CallCopyFiles(t) ==
    /\ ~crashed
    /\ task[t].pc = "copy"
    /\ \/ /\ \E files \in FilesRead(task[t].sid) :
               call' = [call EXCEPT ![t] = [NoCall EXCEPT !.handler = "running",
                                                          !.files = files]]
          /\ task' = [task EXCEPT ![t].pc = "root"]
          /\ UNCHANGED crashed
       \/ /\ mu.op = "AddProtoFile" /\ mu.sid = task[t].sid
          /\ crashed' = TRUE
          /\ UNCHANGED <<task, call>>
    /\ UNCHANGED <<hubVars, auxVars, sessVars, cache, list, protoVars>>

\* CallGRPC, lines 81-84: the goroutine reads session.RootPath for the call's
\* options, holding no lock, and enters NativeClient.Call.  The path is kept
\* nowhere in the call's record; a read that overlaps SetRootPath's
\* assignment is a data race, which may see a torn string and end the process.
CallReadRoot(t) ==
    /\ ~crashed
    /\ task[t].pc = "root"
    /\ \/ /\ task' = [task EXCEPT ![t].pc = "load"]
          /\ UNCHANGED crashed
       \/ /\ mu.op = "SetRootPath" /\ mu.sid = task[t].sid
          /\ crashed' = TRUE
          /\ UNCHANGED task
    /\ UNCHANGED <<hubVars, auxVars, sessVars, cache, call, list, protoVars>>

\* Uploads writing the sessions' fields beside CallGRPC requests.
NextFields ==
    \/ \E s \in Sessions : CreateSessionLocked(s)
    \/ \E op \in FieldWrites, s \in Sessions : WriteLock(op, s)
    \/ WriteUnlock
    \/ \E t \in Tasks, s \in Sessions : CallGet(t, s)
    \/ \E t \in Tasks : CallCopyFiles(t)
    \/ \E t \in Tasks : CallReadRoot(t)

SpecFields == Init /\ [][NextFields]_vars

\* The request context once the handler has returned: net/http cancels it.
CtxAfterReturn(ctx) == "cancelled"

\* CallGRPC answers 202 and returns.
HandlerReturn(t) ==
    /\ ~crashed
    /\ call[t].handler = "running"
    /\ call' = [call EXCEPT ![t].handler = "returned", ![t].ctx = CtxAfterReturn(@),
                            ![t].status = 202]
    /\ UNCHANGED <<protoVars, hubVars, auxVars, sessVars, cache, task, crashed, list>>

\* NativeClient.Call, lines 69-79: the service and the method are looked up
\* in the descriptors.
FindMethod(t) ==
    /\ ~crashed
    /\ task[t].pc = "find"
    /\ \/ task' = [task EXCEPT ![t].pc = "rpc"] /\ UNCHANGED call
       \/ Fail(t, "notfound")
    /\ UNCHANGED <<protoVars, hubVars, auxVars, sessVars, cache, crashed, list>>

\* NativeClient.Call, lines 81-153: connect, build the request, InvokeRpc
\* under the context derived from the request's.  A cancelled context fails
\* the RPC; otherwise the target decides.
InvokeRpc(t) ==
    /\ ~crashed
    /\ task[t].pc = "rpc"
    /\ IF call[t].ctx = "cancelled"
       THEN Fail(t, "cancelled")
       ELSE IF call[t].remote = "ok"
            THEN /\ task' = [task EXCEPT ![t].pc = "emit", ![t].ev = "grpc://response"]
                 /\ UNCHANGED call
            ELSE Fail(t, "remote")
    /\ UNCHANGED <<protoVars, hubVars, auxVars, sessVars, cache, crashed, list>>

\* The keys of the payload CallGRPC's goroutine emits with an event.
PayloadKeys(ev) ==
    IF ev = "grpc://error" THEN {"error", "took_ms", "kind"}
    ELSE {"raw", "parsed", "headers", "trailers", "took_ms"}

\* Connections the call specification opens.
CallClients == {1}

\* Sessions, calls and the hub with one connection.
NextCall ==
    \/ \E c \in CallClients, s \in Sessions : HandleConnection(c, s)
    \/ \E c \in CallClients : RegisterHandoff(c)
    \/ HubRegister
    \/ \E c \in CallClients : ReadPumpEnd(c)
    \/ \E c \in CallClients : UnregisterHandoff(c)
    \/ HubUnregister
    \/ \E c \in CallClients : WritePump(c)
    \/ \E t \in Tasks : EmitRead(t)
    \/ \E t \in Tasks : EmitSend(t)
    \/ \E s \in Sessions : CreateSession(s)
    \/ \E s \in Sessions : DeleteSession(s)
    \/ \E t \in Tasks, s \in Sessions, r \in {"ok", "fail"} : CallGRPC(t, s, r)
    \/ \E t \in Tasks : HandlerReturn(t)
    \/ \E t \in Tasks : CacheCheck(t)
    \/ \E t \in Tasks : ParseFiles(t)
    \/ \E t \in Tasks : StoreBegin(t)
    \/ \E t \in Tasks : StoreEnd(t)
    \/ \E t \in Tasks : FindMethod(t)
    \/ \E t \in Tasks : InvokeRpc(t)

SpecCall == Init /\ [][NextCall]_vars

\* ------------------------------------------------------ WebEventManager
\* Math.min.
Min(a, b) == IF a < b THEN a ELSE b

\* A delay that grows by a second with every attempt.
Backoff_Linear(n) == 1000 * (n + 1)

\* scheduleReconnect's delay after n attempts, in ms.
Backoff(n) == Min(1000 * 2^n, 30000)

\* clearTimeout(id): the timer, if it is pending, is cancelled.
ClearTimeout(pending, id) == pending \ {id}

\* scheduleReconnect: nothing once the attempts are used up; else the timer
\* held in reconnectTimer is cleared, the attempt is counted and a timer is
\* set that will call connect().  Timers are numbered as they are set.
ScheduleReconnect(w) ==
    IF w.reconnectAttempts >= maxReconnectAttempts THEN w
    ELSE [w EXCEPT !.pending = (IF w.reconnectTimer # 0
                                   THEN ClearTimeout(@, w.reconnectTimer) ELSE @)
                                \cup {w.timers + 1},
                   !.delay = Backoff(w.reconnectAttempts),
                   !.reconnectAttempts = @ + 1,
                   !.timers = @ + 1,
                   !.reconnectTimer = w.timers + 1]

\* connect(): `new WebSocket` gives a socket that is connecting, with the
\* manager's handlers on it, or throws and the catch calls scheduleReconnect.
Connect(w, throws) ==
    LET v == [w EXCEPT !.connects = @ + 1]
    IN IF throws THEN ScheduleReconnect(v)
       ELSE [v EXCEPT !.socks = Append(@, "connecting"), !.ws = Len(w.socks) + 1]

\* The frame of the web client's steps.
WebFrame ==
    UNCHANGED <<hubVars, mu, sessVars, task, crashed, cache, call, list, protoVars>>

\* The constructor: connect().
NewWebEventManager(throws) ==
    /\ ~wem.built
    /\ wem' = Connect([wem EXCEPT !.built = TRUE], throws)
    /\ WebFrame

\* The socket's connection is established: onopen resets the attempts.
SocketOpen(i) ==
    /\ i \in 1..Len(wem.socks)
    /\ wem.socks[i] = "connecting"
    /\ wem' = [wem EXCEPT !.socks[i] = "open", !.reconnectAttempts = 0]
    /\ WebFrame

\* The socket is closed, by a failed connection, by the server or the
\* network, or at the end of a close() the manager called: onclose calls
\* scheduleReconnect.
SocketClose(i) ==
    /\ i \in 1..Len(wem.socks)
    /\ wem.socks[i] \in {"connecting", "open", "closing"}
    /\ wem' = ScheduleReconnect([wem EXCEPT !.socks[i] = "closed"])
    /\ WebFrame

\* A pending timer fires: connect().
TimerFires(id, throws) ==
    /\ id \in wem.pending
    /\ wem.connects < MaxConnects
    /\ wem' = Connect([wem EXCEPT !.pending = @ \ {id}], throws)
    /\ WebFrame

\* cleanup(): the timer is cleared and forgotten, the socket is told to close
\* and forgotten (its handlers stay on it), the listeners are dropped.
Cleanup ==
    /\ wem.built
    /\ wem' = [wem EXCEPT
                  !.pending = IF wem.reconnectTimer # 0
                                 THEN ClearTimeout(@, wem.reconnectTimer) ELSE @,
                  !.reconnectTimer = 0,
                  !.socks = IF wem.ws # 0 /\ wem.socks[wem.ws] \in {"connecting", "open"}
                               THEN [@ EXCEPT ![wem.ws] = "closing"] ELSE @,
                  !.ws = 0,
                  !.cleaned = TRUE]
    /\ WebFrame

\* The sockets of the run.
SocketIds == 1..MaxConnects

\* The browser's side of one WebEventManager.
NextWeb ==
    \/ \E throws \in BOOLEAN : NewWebEventManager(throws)
    \/ \E i \in SocketIds : SocketOpen(i)
    \/ \E i \in SocketIds : SocketClose(i)
    \/ \E id \in SocketIds, throws \in BOOLEAN : TimerFires(id, throws)
    \/ Cleanup

SpecWeb == Init /\ [][NextWeb]_vars

\* ------------------------------------------------ CallGRPC's answers
\* The task that runs the call.
Caller == 1

\* The X-Session-ID header of a request: absent, or naming a session.
Headers == {""} \cup Sessions

\* A handler that does not look the session up.
Verdict_NoLookup(h, body) ==
    IF h = "" THEN 400
    ELSE IF body = "invalid" THEN 400
    ELSE 202

\* CallGRPC, lines 46-69 and 117: the status the handler answers with.
Verdict(h, body) ==
    IF h = "" THEN 400
    ELSE IF ~Get(h) THEN 404
    ELSE IF body = "invalid" THEN 400
    ELSE 202

\* CallGRPC for a request with header h and a body that binds or does not:
\* the early returns, or the copy of the file list and the start of the
\* goroutine.
CallGRPCRequest(t, h, body) ==
    /\ ~crashed
    /\ task[t].pc = "idle"
    /\ call[t].handler # "running"
    /\ IF Verdict(h, body) = 202
       THEN /\ task' = [task EXCEPT ![t] = [IdleTask EXCEPT !.k = "call", !.pc = "load",
                                                            !.sid = h]]
            /\ call' = [call EXCEPT ![t] = [NoCall EXCEPT !.handler = "running",
                                                          !.files = sFiles[h]]]
       ELSE /\ call' = [call EXCEPT ![t] = [NoCall EXCEPT !.handler = "returned",
                                                          !.status = Verdict(h, body)]]
            /\ UNCHANGED task
    /\ UNCHANGED <<protoVars, hubVars, auxVars, sessVars, cache, crashed, list>>

\* Call requests of every kind, beside sessions that come, go and expire.
NextAnswer ==
    \/ \E s \in Sessions : CreateSession(s)
    \/ \E s \in Sessions : DeleteSession(s)
    \/ Tick
    \/ \E h \in Headers, body \in {"valid", "invalid"} : CallGRPCRequest(Caller, h, body)
    \/ HandlerReturn(Caller)
    \/ CacheCheck(Caller)
    \/ ParseFiles(Caller)
    \/ StoreBegin(Caller)
    \/ StoreEnd(Caller)
    \/ FindMethod(Caller)
    \/ InvokeRpc(Caller)
    \/ EmitRead(Caller)

SpecAnswer == Init /\ [][NextAnswer]_vars

\* ------------------------------------------------- NativeClient.Call
\* What a call request may name: a service (file f declares service f), a
\* method, a payload that fits the method's input type or does not, and
\* what the target does with the call.
Requests ==
    [service : 1..MaxFiles, method : {"Get", "Nope"}, data : {"fits", "misfit"},
     remote : {"ok", "fail"}]

\* The services fd.GetServices() yields over the descriptors loaded.
ServicesOf(descs) ==
    IF descs.none THEN {} ELSE {descs.files[i] : i \in 1..Len(descs.files)}

\* The methods a service declares.
MethodsOf(service) == {"Get"}

\* Call with the payload parsed ahead of the method lookup.
Stages_BuildFirst == <<"find", "dial", "build", "method", "rpc1">>

\* NativeClient.Call after the descriptors are loaded, in the order of its
\* statements: findServiceDescriptor, FindMethodByName, grpc.NewClient, the
\* request message, InvokeRpc.
Stages == <<"find", "method", "dial", "build", "rpc1">>

\* The statement after the one at pc.
After(pc) ==
    LET i == CHOOSE k \in 1..Len(Stages) : Stages[k] = pc
    IN IF i < Len(Stages) THEN Stages[i + 1] ELSE "emit"

\* The connection once Call returns: the deferred conn.Close() has run if
\* the connection was made.
Deferred(conn) == IF conn = "open" THEN "closed" ELSE conn

\* Call returns the error why, and CallGRPC's goroutine emits grpc://error.
CallFails(t, why) ==
    /\ task' = [task EXCEPT ![t].pc = "emit", ![t].ev = "grpc://error",
                            ![t].kind = EventKind(why)]
    /\ call' = [call EXCEPT ![t].cause = why, ![t].conn = Deferred(@)]

\* CallGRPC, lines 45-93, with the request's fields kept.
CallRequest(t, s, r) ==
    /\ ~crashed
    /\ task[t].pc = "idle"
    /\ Get(s)
    /\ task' = [task EXCEPT ![t] = [IdleTask EXCEPT !.k = "call", !.pc = "load", !.sid = s]]
    /\ call' = [call EXCEPT ![t] = [NoCall EXCEPT !.handler = "running",
                                                  !.remote = r.remote,
                                                  !.files = sFiles[s],
                                                  !.service = r.service,
                                                  !.method = r.method,
                                                  !.data = r.data]]
    /\ UNCHANGED <<protoVars, hubVars, auxVars, sessVars, cache, crashed, list>>

\* Call, lines 69-73 and findServiceDescriptor: the service is looked for by
\* name in every file descriptor.
FindService(t) ==
    /\ ~crashed
    /\ task[t].pc = "find"
    /\ IF call[t].service \in ServicesOf(call[t].descs)
       THEN task' = [task EXCEPT ![t].pc = After("find")] /\ UNCHANGED call
       ELSE CallFails(t, "notfound")
    /\ UNCHANGED <<protoVars, hubVars, auxVars, sessVars, cache, crashed, list>>

\* Call, lines 75-79: serviceDesc.FindMethodByName.
FindMethodByName(t) ==
    /\ ~crashed
    /\ task[t].pc = "method"
    /\ IF call[t].method \in MethodsOf(call[t].service)
       THEN task' = [task EXCEPT ![t].pc = After("method")] /\ UNCHANGED call
       ELSE CallFails(t, "notfound")
    /\ UNCHANGED <<protoVars, hubVars, auxVars, sessVars, cache, crashed, list>>

\* Call, lines 81-91: grpc.NewClient makes the connection, or fails.
Dial(t) ==
    /\ ~crashed
    /\ task[t].pc = "dial"
    /\ \/ /\ call' = [call EXCEPT ![t].conn = "open"]
          /\ task' = [task EXCEPT ![t].pc = After("dial")]
       \/ CallFails(t, "connect")
    /\ UNCHANGED <<protoVars, hubVars, auxVars, sessVars, cache, crashed, list>>

\* Call, lines 93-109: the payload is marshalled and parsed into a message
\* of the method's input type.
BuildRequest(t) ==
    /\ ~crashed
    /\ task[t].pc = "build"
    /\ IF call[t].data = "fits"
       THEN /\ call' = [call EXCEPT ![t].parsed = TRUE]
            /\ task' = [task EXCEPT ![t].pc = After("build")]
       ELSE /\ task' = [task EXCEPT ![t].pc = "emit", ![t].ev = "grpc://error",
                                    ![t].kind = EventKind("payload")]
            /\ call' = [call EXCEPT ![t].cause = "payload", ![t].parsed = TRUE,
                                    ![t].conn = Deferred(@)]
    /\ UNCHANGED <<protoVars, hubVars, auxVars, sessVars, cache, crashed, list>>

\* Call, lines 111-153: InvokeRpc under the context derived from the
\* request's, and the return, which closes the connection.
Invoke(t) ==
    /\ ~crashed
    /\ task[t].pc = "rpc1"
    /\ IF call[t].ctx = "cancelled" THEN CallFails(t, "cancelled")
       ELSE IF call[t].remote # "ok" THEN CallFails(t, "remote")
       ELSE /\ task' = [task EXCEPT ![t].pc = "emit", ![t].ev = "grpc://response"]
            /\ call' = [call EXCEPT ![t].conn = Deferred(@)]
    /\ UNCHANGED <<protoVars, hubVars, auxVars, sessVars, cache, crashed, list>>

\* One call, statement by statement, over sessions and their proto files.
NextNative ==
    \/ \E s \in Sessions : CreateSession(s)
    \/ \E s \in Sessions : AddProtoFile(s, Len(sFiles[s]) + 1)
    \/ \E s \in Sessions, r \in Requests : CallRequest(Caller, s, r)
    \/ HandlerReturn(Caller)
    \/ CacheCheck(Caller)
    \/ ParseFiles(Caller)
    \/ StoreBegin(Caller)
    \/ StoreEnd(Caller)
    \/ FindService(Caller)
    \/ FindMethodByName(Caller)
    \/ Dial(Caller)
    \/ BuildRequest(Caller)
    \/ Invoke(Caller)
    \/ EmitRead(Caller)

SpecNative == Init /\ [][NextNative]_vars

\* Sessions, their proto files, and calls loading descriptors; no WebSocket
\* connection is open, so every outcome event finds no subscriber.
NextCache ==
    \/ \E s \in Sessions : CreateSession(s)
    \/ \E s \in Sessions : AddProtoFile(s, Len(sFiles[s]) + 1)
    \/ \E t \in Tasks, s \in Sessions : CallGRPC(t, s, "ok")
    \/ \E t \in Tasks : HandlerReturn(t)
    \/ \E t \in Tasks : CacheCheck(t)
    \/ \E t \in Tasks : ParseFiles(t)
    \/ \E t \in Tasks : StoreBegin(t)
    \/ \E t \in Tasks : StoreEnd(t)
    \/ \E s \in Sessions : ClearCache(s)
    \/ \E t \in Tasks : FindMethod(t)
    \/ \E t \in Tasks : InvokeRpc(t)
    \/ \E t \in Tasks : EmitRead(t)

SpecCache == Init /\ [][NextCache]_vars

\* -------------------------------------------------------- ListServices
\* Error texts are sequences of words.  The errors NativeClient.ListServices
\* returns: the wrapping text of lines 163-190 followed by what grpc-go
\* reports, over the outcomes a target can produce.
ProbeErrors ==
    { <<"failed", "to", "connect:", "no", "transport", "security", "set">>,
      <<"failed", "to", "create", "reflection", "stream:", "code", "=",
        "Unavailable", "desc", "=", "connection", "refused">>,
      <<"failed", "to", "receive", "services", "list:", "code", "=",
        "DeadlineExceeded", "desc", "=", "context", "deadline", "exceeded">>,
      <<"failed", "to", "receive", "services", "list:", "code", "=",
        "Unimplemented", "desc", "=", "unknown", "service">>,
      <<"failed", "to", "receive", "services", "list:", "code", "=",
        "PermissionDenied", "desc", "=", "denied">>,
      <<"no", "list", "services", "response">> }

\* strings.ToLower on a word.
ToLower(w) ==
    CASE w = "Unavailable" -> "unavailable"
      [] w = "DeadlineExceeded" -> "deadlineexceeded"
      [] w = "Unimplemented" -> "unimplemented"
      [] w = "PermissionDenied" -> "permissiondenied"
      [] OTHER -> w

\* The words that contain kw as a substring.
WordsWith(kw) ==
    CASE kw = "unavailable" -> {"unavailable"}
      [] kw = "refused" -> {"refused"}
      [] kw = "deadline" -> {"deadline", "deadlineexceeded"}
      [] kw = "connect" -> {"connect:", "connection"}
      [] OTHER -> {kw}

\* strings.Contains(msg, kw) for a keyword without spaces.
Contains(msg, kw) == \E i \in 1..Len(msg) : msg[i] \in WordsWith(kw)

\* ListServices, lines 202-203: the test that decides the fallback.
FallbackKeywords == {"unavailable", "refused", "deadline", "connect"}

ShouldFallback(err) ==
    LET lowered == [i \in 1..Len(err) |-> ToLower(err[i])]
    IN  \E kw \in FallbackKeywords : Contains(lowered, kw)

\* ListServices, lines 131-156 and 194-199: the session exists and the body
\* binds; without a target the handler parses locally, otherwise it probes
\* the target by reflection.
ListServices(t, s, target) ==
    /\ ~crashed
    /\ list[t].pc = "idle"
    /\ Get(s)
    /\ list' = [list EXCEPT ![t] =
                  [NoList EXCEPT !.sid = s, !.target = target,
                                 !.pc = IF target = "" THEN "local" ELSE "probe"]]
    /\ UNCHANGED <<protoVars, hubVars, auxVars, task, crashed, sessVars, cache, call>>

\* NativeClient.ListServices returns: the service names, or an error.
ProbeReturn(t) ==
    /\ ~crashed
    /\ list[t].pc = "probe"
    /\ \/ list' = [list EXCEPT ![t].pc = "done", ![t].status = 200,
                               ![t].source = "reflection",
                               ![t].probes = @ + 1, ![t].resp = @ + 1]
       \/ \E e \in ProbeErrors :
            list' = [list EXCEPT ![t].pc = "failed", ![t].err = e,
                                 ![t].probes = @ + 1]
    /\ UNCHANGED <<protoVars, hubVars, auxVars, task, crashed, sessVars, cache, call>>

\* A handler that probes again after an error it does not fall back on.
AfterProbeError_Retry(err) == IF ShouldFallback(err) THEN "local" ELSE "probe"

\* Where ListServices goes after a probe error: parseFromProto, or its 500.
AfterProbeError(err) == IF ShouldFallback(err) THEN "local" ELSE "done"

\* ListServices, lines 200-209: fall back on the dial errors, answer 500 on
\* the others.
ProbeFailed(t) ==
    /\ ~crashed
    /\ list[t].pc = "failed"
    /\ IF AfterProbeError(list[t].err) = "done"
       THEN list' = [list EXCEPT ![t].pc = "done", ![t].status = 500,
                                 ![t].resp = @ + 1]
       ELSE list' = [list EXCEPT ![t].pc = AfterProbeError(list[t].err)]
    /\ UNCHANGED <<protoVars, hubVars, auxVars, task, crashed, sessVars, cache, call>>

\* parseFromProto, lines 158-191: the session's files as they are now; none
\* answers an empty list, otherwise ServiceParser.ParseServices runs and its
\* error answers 500.
ParseFromProto(t) ==
    /\ ~crashed
    /\ list[t].pc = "local"
    /\ LET files == sFiles[list[t].sid]
       IN  \/ list' = [list EXCEPT ![t].pc = "done", ![t].status = 200,
                                   ![t].source = "proto_files",
                                   ![t].files = files,
                                   ![t].parses = @ + 1, ![t].resp = @ + 1]
           \/ /\ files # <<>>
              /\ list' = [list EXCEPT ![t].pc = "done", ![t].status = 500,
                                      ![t].files = files,
                                   ![t].parses = @ + 1, ![t].resp = @ + 1]
    /\ UNCHANGED <<protoVars, hubVars, auxVars, task, crashed, sessVars, cache, call>>

\* ListServices, lines 140-146: Manager.Get finds no session; 404.
ListServicesRejected(t, s) ==
    /\ ~crashed
    /\ list[t].pc = "idle"
    /\ ~Get(s)
    /\ list' = [list EXCEPT ![t] = [NoList EXCEPT !.sid = s, !.pc = "rejected",
                                                  !.status = 404, !.resp = 1]]
    /\ UNCHANGED <<protoVars, hubVars, auxVars, task, crashed, sessVars, cache, call>>

\* The targets a request may name; "" is no target.
Targets == {"", "localhost:50051"}

NextList ==
    \/ \E s \in Sessions : CreateSession(s)
    \/ \E s \in Sessions : AddProtoFile(s, Len(sFiles[s]) + 1)
    \/ \E t \in Tasks, s \in Sessions, g \in Targets : ListServices(t, s, g)
    \/ \E t \in Tasks, s \in Sessions : ListServicesRejected(t, s)
    \/ \E t \in Tasks : ProbeReturn(t)
    \/ \E t \in Tasks : ProbeFailed(t)
    \/ \E t \in Tasks : ParseFromProto(t)

SpecList == Init /\ [][NextList]_vars

\* ---------------------------------------------- proto handler's events
\* What an upload request may carry: a body that is no multipart form, a
\* form without files, a form with a file for a directory that cannot be
\* made, and a form with a file.
Forms == {"unparsable", "nofiles", "mkdirfails", "files"}

\* The handler has returned with the status given, having emitted the events.
Returns(s, op, events, status) ==
    req' = [pc |-> "returned", op |-> op, sid |-> s, events |-> events,
            status |-> status]

\* UploadStructure up to the session directory: 404 for no session; then
\* upload_start, and upload_error with 400 or 500 when the form or the
\* directory fails.
UploadStructure(s, form) ==
    /\ ~crashed
    /\ req.pc \in {"idle", "returned"}
    /\ IF ~Get(s) THEN Returns(s, "upload", <<>>, 404)
       ELSE IF form \in {"unparsable", "nofiles"}
           THEN Returns(s, "upload",
                        <<"proto://upload_start", "proto://upload_error">>, 400)
       ELSE IF form = "mkdirfails"
           THEN Returns(s, "upload",
                        <<"proto://upload_start", "proto://upload_error">>, 500)
       ELSE /\ Len(sFiles[s]) < MaxFiles
            /\ req' = [pc |-> "root", op |-> "upload", sid |-> s,
                       events |-> <<"proto://upload_start">>, status |-> 0]
    /\ UNCHANGED <<hubVars, auxVars, sessVars, task, crashed, cache, call, list, fs, imports,
                   ana, src, parse>>

\* UploadStructure, lines 99-104: Manager.SetRootPath, and 500 when it
\* finds no session under the id.
UploadSetRootPath ==
    /\ ~crashed
    /\ req.pc = "root"
    /\ IF req.sid \in mSessions
       THEN /\ sMeta' = [sMeta EXCEPT ![req.sid].root = SessionDir(req.sid)]
            /\ req' = [req EXCEPT !.pc = "store"]
       ELSE /\ Returns(req.sid, "upload", req.events, 500)
            /\ UNCHANGED sMeta
    /\ UNCHANGED <<hubVars, auxVars, mSessions, sFiles, now, got, swept, task, crashed,
                   cache, call, list, fs, imports, ana, src, parse>>

\* UploadStructure from the copy of the standard library on, for a flat
\* upload of one file: the file is stored and registered (a failed
\* registration is only recorded), upload_done is emitted, 200.
UploadStoreFiles ==
    /\ ~crashed
    /\ req.pc = "store"
    /\ sFiles' = IF req.sid \in mSessions /\ Len(sFiles[req.sid]) < MaxFiles
                     THEN [sFiles EXCEPT ![req.sid] = WithFile(@, Len(@) + 1)]
                     ELSE sFiles
    /\ Returns(req.sid, "upload", Append(req.events, "proto://upload_done"), 200)
    /\ UNCHANGED <<hubVars, auxVars, mSessions, sMeta, now, got, swept, task, crashed,
                   cache, call, list, fs, imports, ana, src, parse>>

\* AnalyzeDependencies, its events: 404 for no session and 400 for a session
\* without root path; then index_start, and index_error with 500 when the
\* directory cannot be analysed, else index_done with 200.
AnalyzeDependencies(s, readable) ==
    /\ ~crashed
    /\ req.pc \in {"idle", "returned"}
    /\ IF ~Get(s) THEN Returns(s, "analyze", <<>>, 404)
       ELSE IF sMeta[s].root = <<>> THEN Returns(s, "analyze", <<>>, 400)
       ELSE IF ~readable
           THEN Returns(s, "analyze",
                        <<"proto://index_start", "proto://index_error">>, 500)
       ELSE Returns(s, "analyze",
                    <<"proto://index_start", "proto://index_done">>, 200)
    /\ UNCHANGED <<hubVars, auxVars, sessVars, task, crashed, cache, call, list, fs, imports,
                   ana, src, parse>>

\* ------------------------------------ one handler's events on the socket
\* The task that runs the AnalyzeDependencies request.
Indexer == 1

\* The client on whose Send channel EmitToSession put the task's message, or
\* NoClient when it found no client or a full buffer.
Receiver(t) == IF task[t].res = "sent" THEN task[t].target ELSE NoClient

\* The record of an EmitToSession call that has returned.
Emitted(t) == [ev |-> task[t].ev, to |-> Receiver(t)]

\* AnalyzeDependencies, lines 337-358: the session is found and has a root
\* path; the handler calls EmitToSession with index_start.
IndexStart(s) ==
    /\ ~crashed
    /\ req.pc = "idle"
    /\ task[Indexer].pc = "idle"
    /\ Get(s)
    /\ sMeta[s].root # <<>>
    /\ req' = [pc |-> "first", op |-> "analyze", sid |-> s, events |-> <<>>,
               status |-> 0]
    /\ task' = [task EXCEPT ![Indexer] = [IdleTask EXCEPT !.pc = "emit", !.sid = s,
                                                          !.ev = "proto://index_start"]]
    /\ UNCHANGED <<hubVars, auxVars, sessVars, crashed, cache, call, list, fs, imports,
                   ana, src, parse>>

\* AnalyzeDependencies, lines 360-393: the first EmitToSession has returned;
\* the directory is analysed and the handler calls EmitToSession with
\* index_error or with index_done.
IndexSecond(readable) ==
    /\ ~crashed
    /\ req.pc = "first"
    /\ task[Indexer].pc = "ret"
    /\ req' = [req EXCEPT !.pc = "second", !.events = Append(@, Emitted(Indexer))]
    /\ task' = [task EXCEPT ![Indexer] =
                   [IdleTask EXCEPT !.pc = "emit", !.sid = req.sid,
                                    !.ev = IF readable THEN "proto://index_done"
                                           ELSE "proto://index_error"]]
    /\ UNCHANGED <<hubVars, auxVars, sessVars, crashed, cache, call, list, fs, imports,
                   ana, src, parse>>

\* AnalyzeDependencies answers 500 after index_error, 200 after index_done.
IndexReturn ==
    /\ ~crashed
    /\ req.pc = "second"
    /\ task[Indexer].pc = "ret"
    /\ req' = [req EXCEPT !.pc = "returned", !.events = Append(@, Emitted(Indexer)),
                          !.status = IF task[Indexer].ev = "proto://index_done"
                                     THEN 200 ELSE 500]
    /\ task' = [task EXCEPT ![Indexer] = IdleTask]
    /\ UNCHANGED <<hubVars, auxVars, sessVars, crashed, cache, call, list, fs, imports,
                   ana, src, parse>>

\* The events of the request that went on client c's channel, in the order
\* of the EmitToSession calls: those recorded, and the one just sent.
SentTo(c) ==
    LET done == req.events \o
                (IF req.pc \in {"first", "second"} /\ task[Indexer].pc = "ret"
                    THEN <<Emitted(Indexer)>> ELSE <<>>)
        mine == SelectSeq(done, LAMBDA e : e.to = c)
    IN [i \in 1..Len(mine) |-> Message(req.sid, mine[i].ev)]

\* One AnalyzeDependencies request beside the hub, its connections and the
\* pumps that write to them.
NextOrder ==
    \/ \E c \in ClientIds, s \in Sessions : HandleConnection(c, s)
    \/ \E c \in ClientIds : RegisterHandoff(c)
    \/ HubRegister
    \/ \E c \in ClientIds : ReadPumpEnd(c)
    \/ \E c \in ClientIds : UnregisterHandoff(c)
    \/ HubUnregister
    \/ \E c \in ClientIds : WritePumpLogged(c)
    \/ \E s \in Sessions : IndexStart(s)
    \/ \E t \in Tasks : EmitRead(t)
    \/ \E t \in Tasks : EmitSend(t)
    \/ \E readable \in BOOLEAN : IndexSecond(readable)
    \/ IndexReturn

\* Every session has been created and has had its upload: SetRootPath has
\* given it its directory.
InitOrder ==
    /\ InitHub
    /\ mSessions = Sessions
    /\ sMeta = [s \in Sessions |-> [NoMeta EXCEPT !.expires = Ttl,
                                                  !.root = SessionDir(s)]]
    /\ now = 0
    /\ got = NoGot
    /\ swept = {}
    /\ sFiles = [s \in Sessions |-> <<>>]
    /\ cache = [s \in Sessions |-> NoEntry]
    /\ call = [t \in Tasks |-> NoCall]
    /\ list = [t \in Tasks |-> NoList]
    /\ task = [t \in Tasks |-> IdleTask]
    /\ crashed = FALSE
    /\ mu = NoWriter
    /\ wem = NoWem
    /\ InitProto

SpecOrder == InitOrder /\ [][NextOrder]_vars

\* The proto handler's requests, one at a time, beside the session handler's.
NextEvents ==
    \/ \E s \in Sessions : CreateSession(s)
    \/ \E s \in Sessions : DeleteSession(s)
    \/ \E s \in Sessions, form \in Forms : UploadStructure(s, form)
    \/ UploadSetRootPath
    \/ UploadStoreFiles
    \/ \E s \in Sessions, readable \in BOOLEAN : AnalyzeDependencies(s, readable)

SpecEvents == Init /\ [][NextEvents]_vars

\* -------------------------------------------------------- import analyzer
\* A relative path is the sequence of its segments; the separator of the
\* build is "/", so filepath.ToSlash and filepath.Rel leave the segments as
\* they are.  A file is the list of the paths its import lines name, which is
\* what importRegex extracts from it.
Uploads == {<<"a.proto">>, <<"b.proto">>}
StdlibFiles == {<<"google", "protobuf", "empty.proto">>}
ImportPaths == Uploads \cup StdlibFiles \cup {<<"missing", "dep.proto">>}
\* Import statements a file may hold.
MaxImports == 2
\* AnalyzeDependencies requests of a run.
MaxAnalyses == 2

BoundedSeq(S, n) == UNION {[1..k -> S] : k \in 0..n}

\* The session roots of a run: any of the uploads with any imports, and the
\* standard library file copied in or not (it imports nothing).
RootStates(uploads) ==
    {[p \in DOMAIN u \cup st |-> IF p \in DOMAIN u THEN u[p] ELSE <<>>] :
        u \in UNION {[D -> BoundedSeq(ImportPaths, MaxImports)] : D \in SUBSET uploads},
        st \in SUBSET StdlibFiles}

stdlibPrefixes ==
    {<<"google", "protobuf">>, <<"google", "api">>, <<"google", "rpc">>,
     <<"google", "type">>}

\* isStandardLibrary: the path starts with one of the prefixes, each of which
\* ends in a slash.
isStandardLibrary(importPath) ==
    Len(importPath) > 2 /\ SubSeq(importPath, 1, 2) \in stdlibPrefixes

\* AnalyzeFile: one record per import line, not found yet.
AnalyzeFile(filePath) ==
    [i \in 1..Len(fs[filePath]) |->
        [ImportPath |-> fs[filePath][i], SourceFile |-> filePath,
         IsStdlib |-> isStandardLibrary(fs[filePath][i]), Found |-> FALSE]]

\* The orders in which a range loop may visit the keys of a Go map.
Orders(S) ==
    {o \in [1..Cardinality(S) -> S] :
        \A i, j \in 1..Cardinality(S) : o[i] = o[j] => i = j}

RECURSIVE Flatten(_, _)
\* The lists F[k] of the keys k, one after the other in the order given.
Flatten(order, F) ==
    IF order = <<>> THEN <<>> ELSE F[Head(order)] \o Flatten(Tail(order), F)

\* AnalyzeDependencies up to AnalyzeDirectory: every .proto file under the
\* root is analysed and stored under its relative path.
AnalyzeDirectory ==
    /\ ana.pc = "idle"
    /\ ana.calls < MaxAnalyses
    /\ imports' = [p \in DOMAIN fs |-> AnalyzeFile(p)]
    /\ ana' = [ana EXCEPT !.pc = "resolve"]
    /\ UNCHANGED <<hubVars, auxVars, sessVars, task, crashed, cache, call, list, fs, src, parse, req>>

\* The set ResolveImports builds by walking the root.
availableFiles == DOMAIN fs

\* A record with every import taken for found.
Resolved_AllFound(imp) == [imp EXCEPT !.Found = TRUE]

\* The body of ResolveImports' inner loop.
Resolved(imp) ==
    IF imp.IsStdlib
        THEN [imp EXCEPT !.Found = TRUE]
        ELSE [imp EXCEPT !.Found = imp.ImportPath \in availableFiles]

\* ResolveImports: the records are updated in place; the ones that took the
\* else branch are appended to the result as the map is ranged over.
ResolveImports ==
    \E order \in Orders(DOMAIN imports) :
    /\ ana.pc = "resolve"
    /\ imports' = [p \in DOMAIN imports |->
                      [i \in 1..Len(imports[p]) |-> Resolved(imports[p][i])]]
    /\ ana' = [ana EXCEPT !.pc = "stdlib",
                          !.missing = Flatten(order,
                              [p \in DOMAIN imports |->
                                  SelectSeq(imports'[p],
                                      LAMBDA imp : ~imp.IsStdlib /\ ~imp.Found)])]
    /\ UNCHANGED <<hubVars, auxVars, sessVars, task, crashed, cache, call, list, fs, src, parse, req>>

\* The set GetMissingStandardLibraries collects.
stdlibSet ==
    {imports[p][i].ImportPath : <<p, i>> \in
        {<<p, i>> \in (DOMAIN imports) \X (1..MaxImports + 1) :
            /\ i <= Len(imports[p])
            /\ imports[p][i].IsStdlib
            /\ ~imports[p][i].Found}}

\* GetMissingStandardLibraries: the set, listed in the order its map yields.
GetMissingStandardLibraries ==
    \E result \in Orders(stdlibSet) :
    /\ ana.pc = "stdlib"
    /\ ana' = [ana EXCEPT !.pc = "graph", !.stdlib = result]
    /\ UNCHANGED <<hubVars, auxVars, sessVars, task, crashed, cache, call, list, fs, imports,
                   src, parse, req>>

\* A Dependencies list that takes in every import of the file.
Dependencies_All(file) ==
    [i \in 1..Len(imports[file]) |-> imports[file][i].ImportPath]

\* The Dependencies list BuildDependencyGraph gives a file.
Dependencies(file) ==
    LET kept == SelectSeq(imports[file], LAMBDA imp : imp.Found /\ ~imp.IsStdlib)
    IN  [i \in 1..Len(kept) |-> kept[i].ImportPath]

\* The Dependents list of a node, the sources being visited in the order given.
Dependents(node, order) ==
    Flatten(order,
        [p \in DOMAIN imports |->
            [i \in 1..Len(SelectSeq(Dependencies(p), LAMBDA d : d = node)) |-> p]])

\* BuildDependencyGraph and the handler's response: a node per key of the
\* map, the edges added while the map is ranged over.
BuildDependencyGraph ==
    \E order \in Orders(DOMAIN imports) :
    /\ ana.pc = "graph"
    /\ ana' = [ana EXCEPT !.pc = "idle", !.calls = @ + 1, !.seen = imports,
                          !.graph = [n \in DOMAIN imports |->
                              [Dependencies |-> Dependencies(n),
                               Dependents |-> Dependents(n, order)]]]
    /\ UNCHANGED <<hubVars, auxVars, sessVars, task, crashed, cache, call, list, fs, imports,
                   src, parse, req>>

\* A session root and AnalyzeDependencies requests on it, one at a time.
InitAnalyze ==
    /\ InitProcess
    /\ fs \in RootStates(Uploads)
    /\ InitAnalyzer
    /\ src = NoSrc
    /\ InitParser

NextAnalyze ==
    \/ AnalyzeDirectory
    \/ ResolveImports
    \/ GetMissingStandardLibraries
    \/ BuildDependencyGraph

SpecAnalyze == InitAnalyze /\ [][NextAnalyze]_vars

\* -------------------------------------------------------- service parser
\* A proto file is a list of lines and a line a list of tokens: a package
\* statement, the words "service Name", a brace, or an rpc statement
\* "rpc Name(In) returns (ext.Out);".  Names are lists of their dot-separated
\* parts.  Blank lines and comments, which the scanner drops, are left out.
ServiceNames == <<"A", "B">>
RpcNames == {"M", "N"}
\* rpc statements a service may hold.
MaxRpcs == 1

Tok(t, name) == [t |-> t, name |-> name]
PackageItem == [k |-> "package", name |-> "pkg", rpcs |-> <<>>]
ServiceItem(name, rpcs) == [k |-> "service", name |-> name, rpcs |-> rpcs]

\* The declarations of a well-formed file: some of the services, each with
\* its rpcs, and at most one package statement before, between or after them.
Decls(names) ==
    UNION {
        {LET S == [i \in 1..n |-> ServiceItem(names[i], rpcs[i])]
         IN  IF at = 0 THEN S
             ELSE SubSeq(S, 1, at - 1) \o <<PackageItem>> \o SubSeq(S, at, n) :
            rpcs \in [1..n -> BoundedSeq(RpcNames, MaxRpcs)], at \in 0..(n + 1)} :
        n \in 0..Len(names)}

\* The tokens that spell a declaration.
TokensOf(item) ==
    IF item.k = "package" THEN <<Tok("package", item.name)>>
    ELSE <<Tok("service", item.name), Tok("{", "")>>
         \o [i \in 1..Len(item.rpcs) |-> Tok("rpc", item.rpcs[i])]
         \o <<Tok("}", "")>>

Stream(decl) ==
    Flatten([i \in 1..Len(decl) |-> i], [i \in 1..Len(decl) |-> TokensOf(decl[i])])

RECURSIVE Split(_, _)
\* The lines of a token stream that is broken after the positions in cuts.
Split(stream, cuts) ==
    IF stream = <<>> THEN <<>>
    ELSE LET k == CHOOSE j \in 1..Len(stream) :
                     /\ j \in cuts \/ j = Len(stream)
                     /\ \A h \in 1..(j - 1) : h \notin cuts
         IN  <<SubSeq(stream, 1, k)>>
             \o Split(SubSeq(stream, k + 1, Len(stream)),
                      {c - k : c \in {x \in cuts : x > k}})

\* The files of a run: every declaration list, broken into lines every way.
SourceFiles(names) ==
    UNION {{[decl |-> d, lines |-> Split(Stream(d), cuts)] :
               cuts \in SUBSET (1..(Len(Stream(d)) - 1))} : d \in Decls(names)}

\* rePackage, reService and reRPC are anchored at the start of the line:
\* "package name;", "service Name {" and "rpc Name(T) returns (U)".
rePackage(line) == Head(line).t = "package"
reService(line) == Head(line).t = "service" /\ Len(line) > 1 /\ line[2].t = "{"
reRPC(line) == Head(line).t = "rpc"

\* strings.Count(line, brace)
BraceCount(line, brace) == Len(SelectSeq(line, LAMBDA tok : tok.t = brace))

\* A type name without a dot gets the package in front, if one is known.
Qualified(type, pkg) == IF Len(type) = 1 /\ pkg # <<>> THEN pkg \o type ELSE type

\* ParseServices up to the scan of the file's first line.
ParseServices ==
    /\ parse.pc = "idle"
    /\ parse' = [NoParse EXCEPT !.pc = "scan", !.i = 1]
    /\ UNCHANGED <<hubVars, auxVars, sessVars, task, crashed, cache, call, list, fs, imports,
                   ana, src, req>>

\* One pass of the scanner loop, on the line the scanner stands at.
ScanLine ==
    /\ parse.pc = "scan"
    /\ parse.i <= Len(src.lines)
    /\ LET line == src.lines[parse.i]
           pkg == IF parse.pkg = <<>> /\ rePackage(line)
                      THEN <<Head(line).name>> ELSE parse.pkg
           depth == parse.braceDepth + BraceCount(line, "{") - BraceCount(line, "}")
           next == [parse EXCEPT !.i = @ + 1, !.pkg = pkg]
       IN  parse' =
               IF reService(line)
                   THEN [next EXCEPT
                            !.services = Append(@,
                                [FQService |-> pkg \o <<Head(line).name>>,
                                 Methods |-> <<>>]),
                            !.currentServiceIndex = Len(parse.services) + 1,
                            !.braceDepth = 1]
               ELSE IF parse.currentServiceIndex > 0
                   THEN IF depth <= 0
                            THEN [next EXCEPT !.currentServiceIndex = 0,
                                              !.braceDepth = 0]
                        ELSE IF reRPC(line)
                            THEN [next EXCEPT
                                     !.braceDepth = depth,
                                     !.services[parse.currentServiceIndex].Methods =
                                         Append(@,
                                             [Name |-> Head(line).name,
                                              InputType |-> Qualified(<<"In">>, pkg),
                                              OutputType |->
                                                  Qualified(<<"ext", "Out">>, pkg)])]
                        ELSE [next EXCEPT !.braceDepth = depth]
               ELSE next
    /\ UNCHANGED <<hubVars, auxVars, sessVars, task, crashed, cache, call, list, fs, imports,
                   ana, src, req>>

\* The scanner is at the end of the file: the services are returned.
ParseReturn ==
    /\ parse.pc = "scan"
    /\ parse.i > Len(src.lines)
    /\ parse' = [parse EXCEPT !.pc = "done"]
    /\ UNCHANGED <<hubVars, auxVars, sessVars, task, crashed, cache, call, list, fs, imports,
                   ana, src, req>>

\* A proto file of the session and one ParseServices call on it.
InitParse ==
    /\ InitProcess
    /\ fs = <<>>
    /\ InitAnalyzer
    /\ src \in SourceFiles(ServiceNames)
    /\ InitParser

NextParse ==
    \/ ParseServices
    \/ ScanLine
    \/ ParseReturn

SpecParse == InitParse /\ [][NextParse]_vars

\* ----------------------------------------------------- claims on the hub
\* A step of task t's EmitToSession.
EmitStepOf(t) == task'[t] # task[t] /\ task[t].pc \in {"emit", "send"}

\* C1: EmitToSession for a session id with no registered client never blocks
\* (its next step is always possible) and, when it runs, returns without a
\* panic, leaves every client's Send channel and the clients map as they
\* were: the event is dropped.
C1_NoSubscriberDropped ==
    /\ [](\A t \in Tasks : (task[t].pc = "emit" /\ ~crashed) => ENABLED EmitRead(t))
    /\ [][\A t \in Tasks :
            (EmitStepOf(t) /\ task[t].pc = "emit" /\ clients[task[t].sid] = NoClient)
            => /\ task'[t].pc = "ret"
               /\ task'[t].res = "nosub"
               /\ cSend' = cSend
               /\ clients' = clients
               /\ cClosed' = cClosed
               /\ crashed' = crashed]_vars

\* C1's case: EmitToSession has returned "session not found" while a client
\* of another session is registered and nothing was queued for it.
C1_Witness ==
    \E t \in Tasks, s \in Sessions :
        /\ task[t].pc = "ret" /\ task[t].res = "nosub"
        /\ clients[task[t].sid] = NoClient
        /\ s # task[t].sid /\ clients[s] # NoClient
        /\ cSend[clients[s]] = <<>>

\* C2: the clients map holds, under a session id, a client of that session
\* id (one entry per id); the run loop's register case for client c makes c
\* the entry of c's session id, whatever entry was there; and an
\* EmitToSession that reads the map afterwards sends only on the channel of
\* the entry it read, never on a replaced client's channel.
C2_RegisterReplaces ==
    /\ [](\A s \in Sessions : clients[s] # NoClient => cSid[clients[s]] = s)
    /\ [][(hubPc = "register" /\ hubPc' # "register")
            => /\ clients'[cSid[hubArg]] = hubArg
               /\ \A s \in Sessions : s # cSid[hubArg] => clients'[s] = clients[s]]_vars
    /\ [][\A t \in Tasks :
            /\ (EmitStepOf(t) /\ task[t].pc = "emit" /\ clients[task[t].sid] # NoClient)
               => task'[t].target = clients[task[t].sid]
            /\ (EmitStepOf(t) /\ task[t].pc = "send")
               => \A c \in ClientIds : c # task[t].target => cSend'[c] = cSend[c]]_vars

\* C2's case: client b was registered over client a of the same session id,
\* which is still connected, and an event emitted since sits in b's channel
\* and none in a's.
C2_Witness ==
    \E a, b \in ClientIds :
        /\ a # b /\ cSid[a] = cSid[b]
        /\ cState[a] = "live" /\ cState[b] = "live" /\ hubPc = "select"
        /\ clients[cSid[b]] = b
        /\ cSend[b] # <<>> /\ cSend[a] = <<>>

\* C7 as claimed: when EmitToSession finds the looked-up client's buffer
\* full, that client is dropped from the clients map.
C7_FullClientDropped ==
    \A t \in Tasks :
        (task[t].pc = "ret" /\ task[t].res = "full")
        => clients[task[t].sid] # task[t].target

\* C8: one EmitToSession(s, ...) enqueues at most one message, on the channel
\* of the client that was the entry of s when the map was read, and that
\* client's session id is s; no other channel changes.
C8_AtMostOnceToSession ==
    /\ [](\A c \in ClientIds : \A i \in 1..Len(cSend[c]) : cSend[c][i].to = cSid[c])
    /\ [][\A t \in Tasks :
            /\ (EmitStepOf(t) /\ task[t].pc = "emit")
               => /\ cSend' = cSend
                  /\ task'[t].pc = "send"
                     => (task'[t].target = clients[task[t].sid]
                         /\ cSid[task'[t].target] = task[t].sid)
            /\ (EmitStepOf(t) /\ task[t].pc = "send")
               => /\ cSid[task[t].target] = task[t].sid
                  /\ \A c \in ClientIds : c # task[t].target => cSend'[c] = cSend[c]
                  /\ \/ cSend'[task[t].target] = cSend[task[t].target]
                     \/ cSend'[task[t].target] =
                          Append(cSend[task[t].target], Message(task[t].sid, task[t].ev))]_vars

\* C8's case: an event was enqueued for the client of its session while a
\* client of another session id is registered and got nothing.
C8_Witness ==
    \E t \in Tasks, c, d \in ClientIds :
        /\ task[t].pc = "ret" /\ task[t].res = "sent" /\ task[t].target = c
        /\ cSend[c] = <<Message(task[t].sid, task[t].ev)>>
        /\ cSid[d] # cSid[c] /\ clients[cSid[d]] = d /\ cSend[d] = <<>>

\* ------------------------------------------- claims on calls and sessions
\* The call of task t has gone through loadFileDescriptors.
Loaded(t) ==
    /\ task[t].k = "call"
    /\ task[t].pc \in {"find", "rpc", "emit", "send", "ret"}
    /\ ~call[t].descs.none

\* The call of task t has reached its outcome event.
Outcome(t) == task[t].k = "call" /\ task[t].pc \in {"emit", "send", "ret"}

\* C3 as claimed: the handler's return never cancels or fails the call, so a
\* call that found its method and that the target would answer ends with
\* grpc://response.
C3_CallOutlivesRequest ==
    \A t \in Tasks :
        /\ call[t].cause # "cancelled"
        /\ (Outcome(t) /\ call[t].remote = "ok" /\ call[t].cause \notin {"load", "notfound"})
           => task[t].ev = "grpc://response"

\* C4 as claimed: a call answered 202 always gets to hand its one outcome
\* event to the hub; the process never stops with such a call still short of
\* its EmitToSession.
C4_ExactlyOneOutcome ==
    \A t \in Tasks :
        (task[t].k = "call" /\ call[t].handler = "returned" /\ crashed)
        => task[t].pc \in {"send", "ret"}

\* C9 as claimed: the EmitToSession of a call whose session is deleted
\* enqueues nothing on any client's channel.
C9_DeletedSessionDropped ==
    [][\A t \in Tasks :
         (EmitStepOf(t) /\ task[t].k = "call" /\ task[t].sid \notin mSessions)
         => cSend' = cSend]_vars

\* ------------------------------------------------ claims on the descriptors
\* C6 as claimed: the descriptors loadFileDescriptors returns are compiled
\* from the file list of the call that loads them.
C6_CacheFollowsFileList ==
    \A t \in Tasks : Loaded(t) => call[t].descs.files = call[t].files

\* C10: an entry of the cache holds descriptors compiled for the session id
\* it is stored under, loadFileDescriptors returns descriptors compiled for
\* the session id it was called with, and a step that changes one session's
\* entry (a store, a clear) changes no other session's.
C10_CacheIsolated ==
    /\ [](\A s \in Sessions : ~cache[s].none => cache[s].sid = s)
    /\ [](\A t \in Tasks : Loaded(t) => call[t].descs.sid = task[t].sid)
    /\ [][\A s, r \in Sessions :
            (s # r /\ cache'[s] # cache[s]) => cache'[r] = cache[r]]_vars
    /\ [][\A t \in Tasks :
            (task[t].pc = "storing" /\ task'[t].pc = "find")
            => \A r \in Sessions : r # task[t].sid => cache'[r] = cache[r]]_vars

\* C10's case: a call has loaded its session's descriptors while the cache
\* holds another session's entry, compiled from other files.
C10_Witness ==
    \E t \in Tasks, r \in Sessions :
        /\ Loaded(t) /\ task[t].pc = "find"
        /\ r # task[t].sid
        /\ ~cache[r].none /\ ~cache[task[t].sid].none
        /\ cache[r].files # cache[task[t].sid].files
        /\ call[t].descs = cache[task[t].sid]

\* ------------------------------------------------- claims on ListServices
\* C5 as claimed: a request with a target whose probe failed, whatever the
\* error, went on to parse the session's proto files; a request without a
\* target made no probe and parsed them.
C5_FallbackOnAnyFailure ==
    \A t \in Tasks :
        list[t].pc = "done"
        => /\ list[t].err # <<>> => list[t].parses = 1
           /\ list[t].target = "" => (list[t].probes = 0 /\ list[t].parses = 1)

\* C11: a load whose parse fails returns an error with no descriptors and
\* leaves the cache as it was, and every entry written to the cache is the
\* compilation of the whole file list of the call that wrote it.
C11_AllOrNothing ==
    /\ [][\A t \in Tasks :
            (task[t].pc = "parse" /\ task'[t].pc # "parse" /\ task'[t].pc # "store")
            => /\ cache' = cache
               /\ call'[t].descs.none
               /\ call'[t].cause = "load"
               /\ task'[t].pc = "emit"]_vars
    /\ [][\A s \in Sessions :
            (cache'[s] # cache[s] /\ ~cache'[s].none)
            => \E t \in Tasks :
                 /\ task[t].pc = "storing" /\ task'[t].pc = "find"
                 /\ cache'[s].files = call[t].files]_vars
    /\ [](\A t \in Tasks : call[t].cause = "load" => call[t].descs.none)

\* C11's case: a call's parse has failed and its session has no entry, while
\* another session's call compiled its file and stored the entry.
C11_Witness ==
    \E t \in Tasks, r \in Sessions :
        /\ call[t].cause = "load" /\ call[t].files # <<>>
        /\ cache[task[t].sid].none
        /\ r # task[t].sid
        /\ ~cache[r].none /\ cache[r].files # <<>>

\* The order of the discovery protocol: the steps one request may take.
ListOrder ==
    { <<"idle", "probe">>, <<"idle", "local">>, <<"idle", "rejected">>,
      <<"probe", "done">>, <<"probe", "failed">>,
      <<"failed", "local">>, <<"failed", "done">>,
      <<"local", "done">> }

\* C12: a ListServices request moves only forward through
\* probing -> success | failure -> fallback -> done; it probes at most once,
\* parses locally at most once, has written exactly one response when it is
\* over and none before, and a request that is not over can always step.
C12_DiscoveryProtocol ==
    /\ [][\A t \in Tasks :
            list'[t].pc # list[t].pc => <<list[t].pc, list'[t].pc>> \in ListOrder]_vars
    /\ [](\A t \in Tasks :
            /\ list[t].probes <= 1 /\ list[t].parses <= 1
            /\ list[t].resp = IF list[t].pc \in {"done", "rejected"} THEN 1 ELSE 0
            /\ (list[t].pc \in {"probe", "failed", "local"} /\ ~crashed)
               => ENABLED (ProbeReturn(t) \/ ProbeFailed(t) \/ ParseFromProto(t)))

\* C12's case: a request has probed once, failed, fallen back, parsed once
\* and answered, and another has answered 500 after its one probe.
C12_Witness ==
    \E t, u \in Tasks :
        /\ list[t].pc = "done" /\ list[t].probes = 1 /\ list[t].parses = 1
        /\ list[t].err # <<>> /\ list[t].resp = 1
        /\ list[u].pc = "done" /\ list[u].probes = 1 /\ list[u].parses = 0
        /\ list[u].status = 500 /\ list[u].resp = 1

\* The next step of the goroutine CallGRPC started for task t.
CallStep(t) ==
    \/ CacheCheck(t) \/ ParseFiles(t) \/ StoreBegin(t) \/ StoreEnd(t)
    \/ FindMethod(t) \/ InvokeRpc(t) \/ EmitRead(t) \/ EmitSend(t)

\* The call of task t is in flight: started and not yet back from
\* EmitToSession.
InFlight(t) == task[t].k = "call" /\ task[t].pc # "ret"

C14_KindIdentifiesCause ==
    /\ \A t \in Tasks :
         (Outcome(t) /\ task[t].ev = "grpc://error")
         => /\ call[t].cause = "cancelled" => task[t].kind = "Cancelled"
            /\ call[t].cause = "notfound"
               => task[t].kind \in {"ServiceNotFound", "MethodNotFound"}
    /\ \A t, u \in Tasks :
         (/\ Outcome(t) /\ task[t].ev = "grpc://error"
          /\ Outcome(u) /\ task[u].ev = "grpc://error"
          /\ call[t].cause # call[u].cause)
         => task[t].kind # task[u].kind

\* C15 as claimed: the client an EmitToSession has looked up is not closed by
\* the run loop before the send, and no EmitToSession ends in the panic of a
\* send on a closed channel.
C15_NoSendOnClosed ==
    \A t \in Tasks :
        /\ task[t].pc = "send" => ~cClosed[task[t].target]
        /\ task[t].res # "panic"

\* ----------------------------------------- claims on the session manager
\* C16: Get finds a session only if it is in the manager and the time is
\* not after its ExpiresAt, which is its creation time plus the TTL; so
\* GetSession answers 404 for a session that has expired, cleaned up or not,
\* and 200 only for one that is present and has not.
C16_GetHonoursExpiry ==
    /\ [](\A s \in Sessions :
            /\ s \in mSessions => sMeta[s].expires = sMeta[s].created + Ttl
            /\ Get(s) => (s \in mSessions /\ now <= sMeta[s].created + Ttl))
    /\ [][\A s \in Sessions :
            GetSession(s)
            => /\ got'.status = 200 => (s \in mSessions /\ now <= sMeta[s].created + Ttl)
               /\ (s \in mSessions /\ now > sMeta[s].created + Ttl) => got'.status = 404]_vars

\* C16's case: GetSession has answered 404 for a session that has expired and
\* is still in the manager, the cleanup not having run.
C16_Witness ==
    /\ got.status = 404
    /\ got.sid \in mSessions
    /\ now > sMeta[got.sid].expires
    /\ sFiles[got.sid] # <<>>

\* C17 as claimed: in no state can CreateSession with a client-provided id
\* answer and leave that id without a session that Get finds.
C17_CreatedIsFound ==
    \A s \in Sessions : ~ENABLED (CreateSession(s) /\ ~Get(s)')

\* C18: a DeleteSession of id s leaves no session under s, so that Get does
\* not find it, and leaves every other id as it was: in or out of the
\* manager, with its proto files, directories, root path and expiry; for an
\* id that has no session it changes nothing at all.
C18_DeleteFrame ==
    [][\A s \in Sessions :
         DeleteSession(s)
         => /\ ~Get(s)'
            /\ s \notin mSessions'
            /\ \A r \in Sessions \ {s} :
                 /\ (r \in mSessions') = (r \in mSessions)
                 /\ sFiles'[r] = sFiles[r]
                 /\ sMeta'[r] = sMeta[r]
            /\ s \notin mSessions => UNCHANGED <<mSessions, sFiles, sMeta>>]_vars

\* C18's case: a session GetSession had found was deleted (no session can
\* have expired yet) while another session keeps its files, directory and
\* root path.
C18_Witness ==
    \E r \in Sessions :
        /\ got.status = 200 /\ got.sid \notin mSessions /\ got.sid # ""
        /\ now <= Ttl /\ swept = {}
        /\ r \in mSessions
        /\ sFiles[r] # <<>> /\ sMeta[r].dirs # {} /\ sMeta[r].root = SessionDir(r)

\* C19: a cleanup pass removes exactly the sessions whose ExpiresAt has
\* passed: none of those remains after it, and every other session is still
\* there with its files and fields unchanged.
C19_CleanupExact ==
    [][CleanupExpiredSessions
       => /\ \A s \in mSessions' : ~(now' > sMeta'[s].expires)
          /\ \A s \in Sessions :
               IF s \in mSessions /\ now > sMeta[s].created + Ttl
               THEN s \notin mSessions'
               ELSE /\ (s \in mSessions') = (s \in mSessions)
                    /\ sFiles'[s] = sFiles[s]
                    /\ sMeta'[s] = sMeta[s]]_vars

\* C19's case: the last pass removed an expired session and kept one that
\* has not expired, with the files it had.
C19_Witness ==
    \E s, r \in Sessions :
        /\ swept = {s} /\ s \notin mSessions
        /\ r \in mSessions /\ now <= sMeta[r].expires
        /\ sFiles[r] # <<>>

\* C20 as claimed: no session holds two ProtoFile entries with the same
\* relative path.
C20_UniqueRelativePaths ==
    \A s \in Sessions :
        \A i, j \in 1..Len(sFiles[s]) :
            i # j => sFiles[s][i] # sFiles[s][j]

\* C21 as claimed: the descriptor cache holds no entry under the id of a
\* session that has been deleted, once no call of that session is in flight.
C21_DeleteClearsCache ==
    \A s \in Sessions :
        (s \notin mSessions /\ \A t \in Tasks : ~(InFlight(t) /\ task[t].sid = s))
        => cache[s].none


\* C30 as claimed: when the run loop handles the Unregister of a client that
\* another client has replaced under its session id, the map entry of the
\* other client stays: the entry is removed only when it is the
\* unregistering client itself.
C30_UnregisterOwnEntryOnly ==
    [][(hubPc = "unregister" /\ hubPc' = "select"
            /\ clients[cSid[hubArg]] \notin {NoClient, hubArg})
        => clients'[cSid[hubArg]] = clients[cSid[hubArg]]]_vars

\* C31 as claimed: under Register, Unregister and EmitToAll the run loop
\* never comes to close a Send channel that is closed already, also when
\* several clients use one session id.
C31_ClosedAtMostOnce ==
    ~(/\ hubPc = "unregister"
      /\ clients[cSid[hubArg]] # NoClient
      /\ cClosed[hubArg])

\* C32 as claimed: a client that was registered, whose ReadPump has ended
\* and whose Unregister the run loop has processed, has its Send channel
\* closed, so that its WritePump can end.
C32_DisconnectedIsClosed ==
    \A c \in ClientIds :
        (cState[c] = "dead" /\ ~(hubPc = "unregister" /\ hubArg = c)) => cClosed[c]

\* C33 as claimed: every write to the clients map, the insert on register
\* and the deletes on unregister and for a slow client of a broadcast, is
\* made while the run loop holds the write lock of Hub.mu.
C33_MapWrittenUnderWriteLock ==
    [][clients' # clients => HubLock = "Lock"]_vars

\* C34 as claimed: no call task reads or writes the descriptorCache map
\* (the cache check, the store) while another call task, of any session, is
\* inside its write of the map.
C34_CacheAccessExclusive ==
    [][\A t \in Tasks :
          (task[t].pc \in {"load", "store"} /\ task'[t].pc # task[t].pc)
              => ~WriterActive(t)]_vars

\* C35 as claimed: a handler's read of a session's ProtoFiles or RootPath
\* never overlaps a write of that field by AddProtoFile or SetRootPath: no
\* such read is made while Manager.mu is held for the write.
C35_FieldsReadUnderLock ==
    [][\A t \in Tasks :
          /\ (task[t].pc = "copy" /\ task'[t].pc # "copy")
                => ~(mu.op = "AddProtoFile" /\ mu.sid = task[t].sid)
          /\ (task[t].pc = "root" /\ task'[t].pc # "root")
                => ~(mu.op = "SetRootPath" /\ mu.sid = task[t].sid)]_vars

C37_NotFoundBeforeConnect ==
    \A t \in Tasks :
        call[t].cause = "notfound" => call[t].conn = "none" /\ ~call[t].parsed

\* ... a call that named a method its service does not declare, with a
\* payload that would not have parsed, has failed.
C37_Witness ==
    /\ call[Caller].cause = "notfound"
    /\ call[Caller].service \in ServicesOf(call[Caller].descs)
    /\ call[Caller].data = "misfit"
    /\ task[Caller].pc = "ret"

\* C38: CallGRPC answers 400 without X-Session-ID, 404 for an unknown or
\* expired session and 400 for a body that does not bind, and in these cases
\* starts no call task and emits nothing; a task starts only for a request
\* of a live session, the one answered 202.
C38_RejectedStartsNothing ==
    [][\A t \in Tasks :
          /\ (call'[t] # call[t] /\ call'[t].status \in {400, 404})
                => /\ UNCHANGED <<task, cSend, wrote>>
                   /\ task[t].pc = "idle"
          /\ (task[t].pc = "idle" /\ task'[t].pc # "idle" /\ task'[t].k = "call")
                => /\ Get(task'[t].sid)
                   /\ call'[t].status = 0
          /\ call'[t].status \in {0, 202, 400, 404}
          /\ call'[t].status = 202 => task[t].k = "call"]_vars

\* ... a request naming a session that has expired was answered 404.
C38_Witness ==
    /\ call[Caller].status = 404
    /\ \E s \in mSessions : now > sMeta[s].expires
    /\ task[Caller].pc = "idle"

\* C39 as claimed: once cleanup() has been called no reconnect timer is
\* pending and the manager makes no further connection, also when the close
\* that cleanup started fires the socket's onclose.
C39_CleanupIsFinal ==
    [][wem.cleaned => /\ wem'.pending = {}
                      /\ wem'.connects = wem.connects]_vars

\* The delays scheduleReconnect may wait, by the attempts made before.
Delays == <<1000, 2000, 4000, 8000, 16000>>

Count(recs, r) == Len(SelectSeq(recs, LAMBDA x : x = r))

\* The record of an import that cannot be resolved, as the spec describes it:
\* not of the standard library, and its path no .proto file under the root.
Unresolvable(r) ==
    ~isStandardLibrary(r.ImportPath) /\ r.ImportPath \notin DOMAIN fs

\* The analysed records, after the step.
RecordsAfter == UNION {{imports'[p][i] : i \in 1..Len(imports'[p])} : p \in DOMAIN imports'}

OnlyA == <<"a.proto">> :> << <<"missing", "dep.proto">> >>
OnlyARecord ==
    [ImportPath |-> <<"missing", "dep.proto">>, SourceFile |-> <<"a.proto">>,
     IsStdlib |-> FALSE, Found |-> FALSE]

\* C22: ResolveImports returns exactly the records of the imports that are
\* not of the standard library and whose path is no .proto file under the
\* root, each with Found false, and leaves every other record with Found
\* true; for a root holding only a.proto importing missing/dep.proto the
\* result is that one record.
C22_ResolveImportsExact ==
    [][(ana.pc = "resolve" /\ ana'.pc = "stdlib") =>
        /\ \A r \in RecordsAfter :
            /\ r.Found = ~Unresolvable(r)
            /\ Count(ana'.missing, r) =
                   IF Unresolvable(r) THEN Count(imports'[r.SourceFile], r) ELSE 0
        /\ \A i \in 1..Len(ana'.missing) : ana'.missing[i] \in RecordsAfter
        /\ fs = OnlyA => ana'.missing = <<OnlyARecord>>]_vars

\* ResolveImports has answered for the root that holds only a.proto.
C22_Witness ==
    /\ fs = OnlyA
    /\ ana.pc = "stdlib"
    /\ ana.missing = <<OnlyARecord>>
    /\ imports[<<"a.proto">>][1].Found = FALSE


\* The analysed records, as they stand.
Records == UNION {{imports[p][i] : i \in 1..Len(imports[p])} : p \in DOMAIN imports}

\* C23 as claimed: once ResolveImports has run, every record with Found true,
\* of the standard library or not, names a file that exists under the
\* session root.
C23_FoundExists ==
    ana.pc \in {"stdlib", "graph"} =>
        \A r \in Records : r.Found => r.ImportPath \in DOMAIN fs


\* The elements of a list.
Range(recs) == {recs[i] : i \in 1..Len(recs)}

\* C24: in the graph BuildDependencyGraph returns, a file lists another as a
\* dependency only if it has an import of it that is found and not of the
\* standard library; for every node B, A is among B's dependents exactly
\* when B is among A's dependencies; and the call returns whatever the
\* imports are, cyclic ones included.
C24_GraphEdges ==
    /\ ana.pc = "graph" => ENABLED BuildDependencyGraph
    /\ ana.calls > 0 =>
        /\ \A A \in DOMAIN ana.graph : \A B \in Range(ana.graph[A].Dependencies) :
            \E r \in Range(ana.seen[A]) :
                r.ImportPath = B /\ r.Found /\ ~isStandardLibrary(r.ImportPath)
        /\ \A A \in DOMAIN ana.graph, B \in DOMAIN ana.graph :
            A \in Range(ana.graph[B].Dependents)
                <=> B \in Range(ana.graph[A].Dependencies)

\* The graph of two files that import each other has been built.
C24_Witness ==
    /\ ana.calls > 0
    /\ fs = (<<"a.proto">> :> << <<"b.proto">> >>) @@ (<<"b.proto">> :> << <<"a.proto">> >>)
    /\ ana.graph[<<"a.proto">>].Dependencies = << <<"b.proto">> >>
    /\ ana.graph[<<"a.proto">>].Dependents = << <<"b.proto">> >>


\* C25 as claimed: a call of BuildDependencyGraph on the input of the call
\* before it returns a graph with the same nodes and the same Dependencies
\* and Dependents lists, and leaves the input map as it was.
C25_GraphIsFunction ==
    [][(ana.pc = "graph" /\ ana'.pc = "idle" /\ ana.calls > 0 /\ imports = ana.seen) =>
        /\ ana'.graph = ana.graph
        /\ imports' = imports]_vars


\* C26 as claimed: when AnalyzeDependencies has called
\* GetMissingStandardLibraries, the path of every standard-library import
\* whose file is not under the session root is once in missing_stdlib.
C26_MissingStdlibReported ==
    ana.pc = "graph" =>
        \A r \in Records :
            (isStandardLibrary(r.ImportPath) /\ r.ImportPath \notin DOMAIN fs)
                => Count(ana.stdlib, r.ImportPath) = 1


\* ------------------------------------------- claims on the service parser
\* The services the file declares, and the last part of a returned name.
DeclaredServices == {src.decl[i] : i \in {j \in 1..Len(src.decl) : src.decl[j].k = "service"}}
Returned == Range(parse.services)
BareName(sv) == sv.FQService[Len(sv.FQService)]
MethodNames(sv) == [i \in 1..Len(sv.Methods) |-> sv.Methods[i].Name]

\* C27 as claimed: when ParseServices has returned for a well-formed file,
\* every declared service is in the result once, every returned service is
\* a declared one, and the methods under each are the rpcs of its block,
\* however the tokens are spread over the lines.
C27_EveryServiceAndMethod ==
    parse.pc = "done" =>
        /\ \A d \in DeclaredServices :
            \E sv \in Returned : BareName(sv) = d.name /\ MethodNames(sv) = d.rpcs
        /\ \A sv \in Returned : \E d \in DeclaredServices : BareName(sv) = d.name
        /\ Len(parse.services) = Cardinality(DeclaredServices)

\* The file declares a package.
HasPackage == \E i \in 1..Len(src.decl) : src.decl[i].k = "package"

\* C28 as claimed: when ParseServices has returned, every returned service
\* of a file with a package statement is named package.ServiceName and the
\* unqualified type names of its methods carry the package, wherever the
\* package statement stands; without a package statement the names are bare.
C28_QualifiedNames ==
    parse.pc = "done" =>
        \A sv \in Returned :
            LET prefix == IF HasPackage THEN <<"pkg">> ELSE <<>>
            IN  /\ sv.FQService = prefix \o <<BareName(sv)>>
                /\ \A m \in Range(sv.Methods) :
                    /\ m.InputType = prefix \o <<"In">>
                    /\ m.OutputType = <<"ext", "Out">>


\* ------------------------------------------ claims on the handler's events
\* The events that end the operation a start event begins.
Terminals(start) ==
    IF start = "proto://upload_start"
        THEN {"proto://upload_done", "proto://upload_error"}
    ELSE IF start = "proto://index_start"
        THEN {"proto://index_done", "proto://index_error"}
    ELSE {}

\* C29 as claimed: when UploadStructure or AnalyzeDependencies has returned,
\* every start event it emitted is followed by one terminal event of the
\* same operation, on the error returns as on the others.
C29_StartHasOneTerminal ==
    req.pc = "returned" =>
        \A i \in 1..Len(req.events) :
            Terminals(req.events[i]) # {} =>
                Cardinality({j \in (i + 1)..Len(req.events) :
                                req.events[j] \in Terminals(req.events[i])}) = 1

====
